---- MODULE Spec2Model ----
(***************************************************************************)
(* A model of dvdromcopy's UDF reading core: the sector cache (cache.rs),   *)
(* the address resolver (logical_block_reader.rs), anchor discovery         *)
(* (udf_parser.rs) and the volume-descriptor-sequence scan                  *)
(* (udf_high_level.rs).  Each component has its own specification over the  *)
(* shared variables; the variables of the other components stay at "idle".  *)
(***************************************************************************)
EXTENDS Integers, Sequences, FiniteSets, TLC

VARIABLES
    nslots,        \* Cache: BYTE_SIZE / DVDCSS_BLOCK_SIZE, fixed at construction
    data,          \* Cache.data, kept per 2048-byte slot
    lru_cache,     \* Cache.lru_cache: <<[block, index]>>, least recently used first
    empty_blocks,  \* Cache.empty_blocks: a stack, top is the last element
    accessOrder,   \* ghost: blocks by their last successful access, oldest first
    ret,           \* what the last Cache call did and returned
    addr,          \* the address resolver's call and result
    anc,           \* read_anchor's image, probes and result
    vds,           \* read_volume_structures' image, reads and result
    call,          \* one call of a parsing or codec function and its result
    walk,          \* run_on_directory's traversal of a directory tree
    copy           \* read_file's extents, reads and output

cacheVars == <<nslots, data, lru_cache, empty_blocks, accessOrder, ret>>
laterVars == <<call, walk, copy>>
vars == <<nslots, data, lru_cache, empty_blocks, accessOrder, ret, addr, anc, vds,
          call, walk, copy>>

Idle == [pc |-> "idle"]

OthersIdle == call = Idle /\ walk = Idle /\ copy = Idle

(***************************************************************************)
(* Generic helpers.                                                        *)
(***************************************************************************)
Min(a, b) == IF a < b THEN a ELSE b

Range(s) == {s[i] : i \in DOMAIN s}

RECURSIVE Without(_, _)
\* s with every element equal to x removed, order kept
Without(s, x) ==
    IF s = <<>> THEN <<>>
    ELSE IF Head(s) = x THEN Without(Tail(s), x)
    ELSE <<Head(s)>> \o Without(Tail(s), x)

Front(s) == SubSeq(s, 1, Len(s) - 1)

Last(s) == s[Len(s)]

(***************************************************************************)
(* The sector cache, cache.rs.                                             *)
(***************************************************************************)
DVDCSS_BLOCK_SIZE == 2048

\* The largest capacity (in slots) a Cache is constructed with.
MaxSlots == 2

\* The number of whole blocks the immutable source holds; block SrcBlocks
\* is past its end, and a read of it fails.
SrcBlocks == 3

\* Block numbers read_block is called with.
Blocks == 0..SrcBlocks

\* The byte the immutable source holds at byte offset p (never 0, so that a
\* byte the cache zeroed and never filled differs from every source byte).
SrcByte(p) == 1 + (((p % 251) + 7 * (p \div DVDCSS_BLOCK_SIZE)) % 255)

\* What the source does on one seek + read_exact of a block.
IoOutcomes == {"ok", "seek_err", "read_err"}

\* Cache.data[index*2048 .. (index+1)*2048] after buf.fill(0)
ZeroSlot == [kind |-> "zero"]

\* ... after a read_exact that filled it from block b
CopyOf(b) == [kind |-> "copy", block |-> b]

\* ... after a seek or read_exact that failed: zeroed, then whatever part of
\* the block the device delivered before the error.  No byte of it is known.
Unspecified == [kind |-> "unspecified"]

\* The value of a byte that is not known; it equals no byte of the source.
UnknownByte == 0 - 1

\* byte o of a slot
SlotByte(slot, o) ==
    CASE slot.kind = "zero" -> 0
      [] slot.kind = "copy" -> SrcByte(slot.block * DVDCSS_BLOCK_SIZE + o)
      [] slot.kind = "unspecified" -> UnknownByte

\* lru::LruCache::get as used at cache.rs:55: the entry is promoted to
\* most-recently-used when present.
LruGet_NoPromote(lru, block) == lru

LruGet(lru, block) ==
    IF \E i \in DOMAIN lru : lru[i].block = block
    THEN LET e == CHOOSE e \in Range(lru) : e.block = block
         IN  Without(lru, e) \o <<e>>
    ELSE lru

LruContains(lru, block) == \E i \in DOMAIN lru : lru[i].block = block

LruIndex(lru, block) == (CHOOSE e \in Range(lru) : e.block = block).index

\* lru::LruCache::put as used at cache.rs:70: replaces an existing key,
\* evicts the least recently used entry when at capacity, inserts as MRU.
LruPut(lru, cap, block, index) ==
    LET e == [block |-> block, index |-> index]
    IN  IF LruContains(lru, block)
        THEN Without(lru, CHOOSE x \in Range(lru) : x.block = block) \o <<e>>
        ELSE IF Len(lru) >= cap THEN Tail(lru) \o <<e>>
        ELSE lru \o <<e>>

\* A Cache value: the three fields the calls change.
CacheOf(d, l, e) == [data |-> d, lru_cache |-> l, empty_blocks |-> e]

\* Cache::new
CacheNew(n) ==
    CacheOf([i \in 0..(n - 1) |-> ZeroSlot], <<>>, [i \in 1..n |-> i - 1])

ensure_empty_block_KeepMapping(c) ==
    IF c.empty_blocks # <<>>
    THEN [index |-> Last(c.empty_blocks), evicted |-> <<>>,
          cache |-> [c EXCEPT !.empty_blocks = Front(c.empty_blocks)]]
    ELSE [index |-> Head(c.lru_cache).index, evicted |-> <<>>, cache |-> c]

\* Cache::ensure_empty_block: pop a free slot, else pop the LRU mapping
ensure_empty_block(c) ==
    IF c.empty_blocks # <<>>
    THEN [index |-> Last(c.empty_blocks), evicted |-> <<>>,
          cache |-> [c EXCEPT !.empty_blocks = Front(c.empty_blocks)]]
    ELSE [index |-> Head(c.lru_cache).index,
          evicted |-> <<Head(c.lru_cache).block>>,
          cache |-> [c EXCEPT !.lru_cache = Tail(c.lru_cache)]]

\* Whether the source's seek + read_exact of `block` succeeds, given what
\* the device does on this call: a block past the end cannot be read.
SourceOutcome(block, io) ==
    IF io = "ok" /\ block >= SrcBlocks THEN "read_err" ELSE io

\* The slot's bytes after the failed closure of cache.rs:64-68.
FailedSlot(block, io) == Unspecified

read_block_err_NoPush(c, index) == c

\* cache.rs:73-76: the Err arm
read_block_err(c, index) ==
    [c EXCEPT !.empty_blocks = Append(c.empty_blocks, index)]

read_block_ok_Unpromoted(c, cap, block, index) ==
    [c EXCEPT !.lru_cache = <<[block |-> block, index |-> index]>> \o c.lru_cache]

\* cache.rs:69-72: the Ok arm
read_block_ok(c, cap, block, index) ==
    [c EXCEPT !.lru_cache = LruPut(c.lru_cache, cap, block, index)]

\* Cache::read_block.  io is the device's behaviour on this call.
read_block(c, cap, block, io) ==
    IF LruContains(c.lru_cache, block)
    THEN LET l == LruGet(c.lru_cache, block)
             index == LruIndex(c.lru_cache, block)
         IN  [cache |-> [c EXCEPT !.lru_cache = l], res |-> "ok",
              slice |-> c.data[index], index |-> index, hit |-> TRUE,
              evicted |-> <<>>, srcreads |-> <<>>]
    ELSE LET a == ensure_empty_block(c)
             out == SourceOutcome(block, io)
         IN  IF out = "ok"
             THEN LET c1 == [a.cache EXCEPT !.data[a.index] = CopyOf(block)]
                  IN  [cache |-> read_block_ok(c1, cap, block, a.index),
                       res |-> "ok", slice |-> c1.data[a.index],
                       index |-> a.index, hit |-> FALSE,
                       evicted |-> a.evicted, srcreads |-> <<block>>]
             ELSE LET c1 == [a.cache EXCEPT
                                !.data[a.index] = FailedSlot(block, out)]
                  IN  [cache |-> read_block_err(c1, a.index),
                       res |-> out, slice |-> ZeroSlot,
                       index |-> a.index, hit |-> FALSE,
                       evicted |-> a.evicted, srcreads |-> <<block>>]

end_pos_this_read_NoMin(end_pos, block) == (block + 1) * DVDCSS_BLOCK_SIZE

\* cache.rs:45
end_pos_this_read(end_pos, block) ==
    Min(end_pos, (block + 1) * DVDCSS_BLOCK_SIZE)

\* buf[read..read + len].copy_from_slice(&data[offset..offset + len]).
\* A buffer is kept as the copies made into a zeroed Vec, in order; its
\* bytes are BufByte's.
CopyFromSlice(buf, read, len, slot, offset) ==
    Append(buf, [read |-> read, len |-> len, slot |-> slot, offset |-> offset])

RECURSIVE BufByteFrom(_, _, _)
\* byte i (from 0) of a buffer: the last copy that covers it, else the zero
\* it was allocated with
BufByteFrom(buf, j, i) ==
    IF j = 0 THEN 0
    ELSE IF i >= buf[j].read /\ i < buf[j].read + buf[j].len
         THEN SlotByte(buf[j].slot, buf[j].offset + (i - buf[j].read))
         ELSE BufByteFrom(buf, j - 1, i)

BufByte(buf, i) == BufByteFrom(buf, Len(buf), i)

offset_in_block_Zero(pos_this_read) == 0

\* cache.rs:44
offset_in_block(pos_this_read) == pos_this_read % DVDCSS_BLOCK_SIZE

RECURSIVE read_exact_loop(_, _, _, _, _, _, _, _, _)
\* Cache::read_exact's while loop from `read` on, for a buffer of n bytes.
\* The device fails with failIo when block failBlock is read in this call.
\* acc gathers what the call did.
read_exact_loop(c, cap, pos, n, buf, read, failBlock, failIo, acc) ==
    IF read < n
    THEN LET pos_this_read == pos + read
             block == pos_this_read \div DVDCSS_BLOCK_SIZE
             offset == offset_in_block(pos_this_read)
             epos == end_pos_this_read(pos + n, block)
             len == epos - pos_this_read
             r == read_block(c, cap, block,
                             IF block = failBlock THEN failIo ELSE "ok")
             acc1 == [resolved |-> Append(acc.resolved, block),
                      okblocks |-> IF r.res = "ok"
                                   THEN Append(acc.okblocks, block)
                                   ELSE acc.okblocks,
                      evicted |-> acc.evicted \o r.evicted,
                      srcreads |-> acc.srcreads \o r.srcreads]
         IN  IF r.res # "ok"
             THEN [cache |-> r.cache, res |-> r.res, buf |-> buf, acc |-> acc1]
             ELSE IF read + len > n \/ offset + len > DVDCSS_BLOCK_SIZE
             THEN \* a slice range out of bounds at cache.rs:48
                  [cache |-> r.cache, res |-> "panic", buf |-> buf, acc |-> acc1]
             ELSE read_exact_loop(r.cache, cap, pos, n,
                                  CopyFromSlice(buf, read, len, r.slice, offset),
                                  read + len, failBlock, failIo, acc1)
    ELSE [cache |-> c, res |-> "ok", buf |-> buf, acc |-> acc]

\* Cache::read_exact(pos, buf) on a zeroed buffer of n bytes
read_exact(c, cap, pos, n, failBlock, failIo) ==
    read_exact_loop(c, cap, pos, n, <<>>, 0, failBlock, failIo,
                    [resolved |-> <<>>, okblocks |-> <<>>,
                     evicted |-> <<>>, srcreads |-> <<>>])

\* The cache as a value, from the variables
Now == CacheOf(data, lru_cache, empty_blocks)

Cached(lru) == {lru[i].block : i \in DOMAIN lru}

RECURSIVE Touch(_, _)
\* the ghost access order after the blocks of `bs` were accessed in turn
Touch(order, bs) ==
    IF bs = <<>> THEN order
    ELSE Touch(Without(order, Head(bs)) \o <<Head(bs)>>, Tail(bs))

\* Byte offsets and lengths read_exact is called with: aligned and
\* unaligned starts and ends, the empty read, reads of one to three blocks.
Positions == {0, DVDCSS_BLOCK_SIZE - 1, DVDCSS_BLOCK_SIZE + 5}

Lengths == {0, 1, DVDCSS_BLOCK_SIZE, DVDCSS_BLOCK_SIZE + 2}

\* The blocks that hold a byte of [pos, pos + n)
Touched(pos, n) ==
    IF n = 0 THEN {}
    ELSE (pos \div DVDCSS_BLOCK_SIZE)..((pos + n - 1) \div DVDCSS_BLOCK_SIZE)

\* "no block fails in this call"
NoBlock == 0 - 1

NoCall == [op |-> "none"]

InitCache ==
    /\ nslots \in 1..MaxSlots
    /\ data = CacheNew(nslots).data
    /\ lru_cache = CacheNew(nslots).lru_cache
    /\ empty_blocks = CacheNew(nslots).empty_blocks
    /\ accessOrder = <<>>
    /\ ret = NoCall

\* One call of Cache::read_block
ReadBlock(block, io) ==
    LET r == read_block(Now, nslots, block, io)
    IN  /\ data' = r.cache.data
        /\ lru_cache' = r.cache.lru_cache
        /\ empty_blocks' = r.cache.empty_blocks
        /\ accessOrder' = IF r.res = "ok" THEN Touch(accessOrder, <<block>>)
                          ELSE accessOrder
        /\ ret' = [op |-> "read_block", block |-> block, res |-> r.res,
                   slice |-> r.slice, index |-> r.index, hit |-> r.hit,
                   io |-> IF r.hit THEN "unused" ELSE io,
                   evicted |-> r.evicted, srcreads |-> r.srcreads]
        /\ UNCHANGED <<nslots, addr, anc, vds, laterVars>>

\* One call of Cache::read_exact
ReadExact(pos, n, failBlock, failIo) ==
    LET r == read_exact(Now, nslots, pos, n, failBlock, failIo)
    IN  /\ data' = r.cache.data
        /\ lru_cache' = r.cache.lru_cache
        /\ empty_blocks' = r.cache.empty_blocks
        /\ accessOrder' = Touch(accessOrder, r.acc.okblocks)
        /\ ret' = [op |-> "read_exact", pos |-> pos, len |-> n,
                   res |-> r.res, buf |-> r.buf,
                   resolved |-> r.acc.resolved, evicted |-> r.acc.evicted,
                   failBlock |-> failBlock, srcreads |-> r.acc.srcreads]
        /\ UNCHANGED <<nslots, addr, anc, vds, laterVars>>

(***************************************************************************)
(* Claims about the sector cache, checked under Spec.                      *)
(***************************************************************************)
\* C1: every successful read_block(b) returns exactly the 2048 bytes the
\* immutable source holds at byte offset b * 2048, whatever hits, misses,
\* evictions and failed calls came before.
C1_CacheCoherence ==
    (ret.op = "read_block" /\ ret.res = "ok") =>
        \A o \in 0..(DVDCSS_BLOCK_SIZE - 1) :
            SlotByte(ret.slice, o) = SrcByte(ret.block * DVDCSS_BLOCK_SIZE + o)

\* A hit served after an earlier call failed and left a slot unspecified.
C1_Witness ==
    /\ ret.op = "read_block" /\ ret.res = "ok" /\ ret.hit
    /\ \E i \in DOMAIN data : data[i] = Unspecified

\* C2: between calls the free-slot stack and the slots of the LRU map are
\* disjoint, hold no duplicates and together are exactly 0..C-1; the map
\* holds at most C mappings and no two cached blocks share a slot.
C2_SlotAccounting ==
    LET free == Range(empty_blocks)
        used == {lru_cache[i].index : i \in DOMAIN lru_cache}
    IN  /\ free \cap used = {}
        /\ free \cup used = 0..(nslots - 1)
        /\ Cardinality(free) = Len(empty_blocks)
        /\ Cardinality(used) = Len(lru_cache)
        /\ Cardinality(Cached(lru_cache)) = Len(lru_cache)
        /\ Len(lru_cache) <= nslots

\* A call that evicted a block and then failed, in a cache of several slots.
C2_Witness ==
    /\ ret.op \in {"read_block", "read_exact"}
    /\ ret.res # "ok" /\ ret.evicted # <<>> /\ nslots > 1

\* the block of S accessed longest ago, by the ghost access order
Oldest(order, S) == order[CHOOSE i \in DOMAIN order :
                            /\ order[i] \in S
                            /\ \A j \in 1..(i - 1) : order[j] \notin S]

\* C3: a read_block miss with no free slot evicts exactly one mapping, that
\* of the cached block whose last successful access is the oldest; a hit
\* makes the block most recently used, reads nothing from the source and
\* evicts nothing.
C3_LruEviction ==
    [][ret'.op = "read_block" =>
        LET before == Cached(lru_cache)
            after == Cached(lru_cache')
        IN  /\ ret'.block \in before =>
                /\ ret'.hit /\ ret'.res = "ok"
                /\ ret'.srcreads = <<>> /\ ret'.evicted = <<>>
                /\ after = before
                /\ Last(lru_cache').block = ret'.block
                /\ Last(accessOrder') = ret'.block
            /\ (ret'.block \notin before /\ empty_blocks = <<>>) =>
                /\ ~ret'.hit
                /\ ret'.evicted = <<Oldest(accessOrder, before)>>
                /\ before \ after = {Oldest(accessOrder, before)}
                /\ after \ before \subseteq {ret'.block}
            /\ (ret'.block \notin before /\ empty_blocks # <<>>) =>
                /\ ret'.evicted = <<>>
                /\ before \subseteq after
       ]_vars

\* A successful miss that evicted a block from a full cache of several slots.
C3_Witness ==
    /\ ret.op = "read_block" /\ ~ret.hit /\ ret.res = "ok"
    /\ ret.evicted # <<>> /\ nslots > 1 /\ Len(lru_cache) = nslots

\* C4: when the source fails during a miss, read_block returns that error,
\* the slot it acquired is pushed back on the free-slot stack and no mapping
\* for the block exists (so the next read_block of it reads the source
\* again); when the source read succeeds the mapping block -> slot is the
\* most recently used one.
C4_FailureHandling ==
    [][ret'.op = "read_block" =>
        /\ (~ret'.hit /\ ret'.io # "ok") =>
              /\ ret'.res = ret'.io
              /\ empty_blocks' # <<>>
              /\ Last(empty_blocks') = ret'.index
              /\ ~LruContains(lru_cache', ret'.block)
        /\ (~ret'.hit /\ ret'.res = "ok") =>
              /\ lru_cache' # <<>>
              /\ Last(lru_cache') = [block |-> ret'.block, index |-> ret'.index]
              /\ data'[ret'.index] = CopyOf(ret'.block)
        /\ ~LruContains(lru_cache, ret'.block) =>
              /\ ~ret'.hit
              /\ ret'.srcreads = <<ret'.block>>
       ]_vars

\* A miss on a full cache whose source read failed.
C4_Witness ==
    /\ ret.op = "read_block" /\ ~ret.hit /\ ret.res \in {"seek_err", "read_err"}
    /\ ret.evicted # <<>>

RECURSIVE Ascending(_, _)
\* <<lo, lo + 1, ..., hi>>
Ascending(lo, hi) == IF lo > hi THEN <<>> ELSE <<lo>> \o Ascending(lo + 1, hi)

\* the blocks holding a byte of [pos, pos + n), in ascending order
TouchedSeq(pos, n) ==
    IF n = 0 THEN <<>>
    ELSE Ascending(pos \div DVDCSS_BLOCK_SIZE, (pos + n - 1) \div DVDCSS_BLOCK_SIZE)

IsPrefix(s, t) == Len(s) <= Len(t) /\ s = SubSeq(t, 1, Len(s))

Init ==
    /\ InitCache
    /\ addr = Idle
    /\ anc = Idle
    /\ vds = Idle
    /\ OthersIdle

Next ==
    \/ \E b \in Blocks, io \in IoOutcomes : ReadBlock(b, io)
    \/ \E pos \in Positions, n \in Lengths :
          \E fb \in Touched(pos, n) \cup {NoBlock} : ReadExact(pos, n, fb, "read_err")

Spec == Init /\ [][Next]_vars

(***************************************************************************)
(* Unsigned integers wider than TLC's 32 bits: a natural number is the      *)
(* sequence of its base-256 digits, least significant first, without        *)
(* leading zero digits (0 is <<>>).  u32 arithmetic is this arithmetic      *)
(* truncated to four digits.                                                *)
(***************************************************************************)
RECURSIVE Nat2Big(_)
Nat2Big(n) == IF n = 0 THEN <<>> ELSE <<n % 256>> \o Nat2Big(n \div 256)

RECURSIVE Norm(_)
\* without leading (most significant) zero digits
Norm(a) == IF a # <<>> /\ Last(a) = 0 THEN Norm(Front(a)) ELSE a

Digit(a, i) == IF i <= Len(a) THEN a[i] ELSE 0

RECURSIVE Carry(_, _)
\* the digits of the number whose base-256 coefficients are s, plus carry c
Carry(s, c) ==
    IF s = <<>> THEN Nat2Big(c)
    ELSE <<(Head(s) + c) % 256>> \o Carry(Tail(s), (Head(s) + c) \div 256)

Max(a, b) == IF a > b THEN a ELSE b

BigAdd(a, b) ==
    Norm(Carry([i \in 1..Max(Len(a), Len(b)) |-> Digit(a, i) + Digit(b, i)], 0))

RECURSIVE ConvSum(_, _, _, _)
\* the sum of a[i] * b[k + 1 - i] for i from `i` up
ConvSum(a, b, k, i) ==
    IF i > Len(a) THEN 0
    ELSE (IF k + 1 - i >= 1 THEN a[i] * Digit(b, k + 1 - i) ELSE 0)
         + ConvSum(a, b, k, i + 1)

BigMul(a, b) ==
    Norm(Carry([k \in 1..(Len(a) + Len(b)) |-> ConvSum(a, b, k, 1)], 0))

RECURSIVE RemAfter(_, _, _)
\* the remainder modulo d of the digits of a from position i up
RemAfter(a, i, d) ==
    IF i > Len(a) THEN 0 ELSE (RemAfter(a, i + 1, d) * 256 + a[i]) % d

\* a divided by the small number d, rounded down
BigDivSmall(a, d) ==
    Norm([i \in 1..Len(a) |-> (RemAfter(a, i + 1, d) * 256 + a[i]) \div d])

\* whether a fits in a u32
FitsU32(a) == Len(a) <= 4

\* a modulo 2^32
WrapU32(a) == Norm(SubSeq(a, 1, Min(4, Len(a))))

(***************************************************************************)
(* The address resolver, logical_block_reader.rs.                          *)
(***************************************************************************)
\* u32 values a LongAd, a LogicalVolumeDescriptor and a PartitionDescriptor
\* may carry (they are read from the disc unchecked)
TwoTo21 == Nat2Big(2097152)

U32Max == <<255, 255, 255, 255>>

BlockNumbers == {Nat2Big(0), Nat2Big(1), Nat2Big(3), Nat2Big(2097151),
                 TwoTo21, U32Max}

\* logical_block_size: DVD-ROM's 2048 first, then other sizes
BlockSizes == <<Nat2Big(2048), Nat2Big(4096), Nat2Big(512), Nat2Big(3000)>>

StartingLocations == {Nat2Big(0), Nat2Big(257), U32Max}

\* Partition tables: partition number -> partition_starting_location
PartitionTables(psl) ==
    {(0 :> psl), (0 :> Nat2Big(7)) @@ (1 :> psl)}

PartitionReferences == {0, 1, 2}

\* How an arithmetic overflow ends: a panic where overflow checks are
\* compiled in (the default of debug builds), wrap-around otherwise.
Builds == {"debug", "release"}

NoneValue == [some |-> FALSE]

Some(v) == [some |-> TRUE, v |-> v]

Panic == [panic |-> TRUE]

\* u32 a * b / DVDCSS_BLOCK_SIZE, logical_block_reader.rs:24-25: the
\* product is taken first, in u32
MulDiv(a, b) ==
    [overflow |-> ~FitsU32(BigMul(a, b)),
     v |-> BigDivSmall(WrapU32(BigMul(a, b)), DVDCSS_BLOCK_SIZE)]

\* long_ad_to_sector_number
long_ad_to_sector_number(logical_block_size, partition_descriptors, partition_reference_number, logical_block_number, build) ==
    IF partition_reference_number \in DOMAIN partition_descriptors
    THEN LET psl == partition_descriptors[partition_reference_number]
             md == MulDiv(logical_block_number, logical_block_size)
             sum == BigAdd(psl, md.v)
         IN  IF (md.overflow \/ ~FitsU32(sum)) /\ build = "debug"
             THEN Panic
             ELSE Some(WrapU32(sum))
    ELSE NoneValue

InitAddr ==
    \E lbn \in BlockNumbers, psl \in StartingLocations,
       prn \in PartitionReferences, build \in Builds,
       s \in DOMAIN BlockSizes :
       \E pds \in PartitionTables(psl) :
          addr = [pc |-> "call", logical_block_number |-> lbn,
                  logical_block_size |-> BlockSizes[s],
                  partition_descriptors |-> pds,
                  partition_reference_number |-> prn, build |-> build]

\* One call of long_ad_to_sector_number
LongAdToSectorNumber ==
    /\ addr.pc = "call"
    /\ addr' = [addr EXCEPT !.pc = "done"] @@
               [result |-> long_ad_to_sector_number(
                              addr.logical_block_size,
                              addr.partition_descriptors,
                              addr.partition_reference_number,
                              addr.logical_block_number, addr.build)]
    /\ UNCHANGED <<cacheVars, anc, vds, laterVars>>

\* The cache, unused
CacheIdle ==
    /\ nslots = 1
    /\ data = CacheNew(1).data
    /\ lru_cache = <<>>
    /\ empty_blocks = <<0>>
    /\ accessOrder = <<>>
    /\ ret = NoCall

SpecAddrInit == CacheIdle /\ InitAddr /\ anc = Idle /\ vds = Idle /\ OthersIdle

SpecAddrNext == LongAdToSectorNumber

SpecAddr == SpecAddrInit /\ [][SpecAddrNext]_vars

\* C6: when the LongAd's partition_reference_number P is in the partition
\* table the result is Some(partition_table[P].partition_starting_location
\* + logical_block_number * (logical_block_size / 2048)), for all u32
\* values, without wrap-around or truncation; otherwise the result is None.
C6_AddressResolution ==
    addr.pc = "done" =>
        IF addr.partition_reference_number \in DOMAIN addr.partition_descriptors
        THEN addr.result =
                Some(BigAdd(addr.partition_descriptors[addr.partition_reference_number],
                            BigMul(addr.logical_block_number,
                                   BigDivSmall(addr.logical_block_size,
                                               DVDCSS_BLOCK_SIZE))))
        ELSE addr.result = NoneValue

(***************************************************************************)
(* Descriptors on disk (udf.rs, crc.rs, udf_parser.rs)                     *)
(*                                                                         *)
(* A sector's content is a function from byte offsets to byte values; the *)
(* offsets it leaves out hold zero.  A buffer filled by read_exact is the *)
(* window [pos, pos + len) of the source.                                  *)
(***************************************************************************)
LOGICAL_SECTOR_SIZE == 2048

RAW_CD_SECTOR_SIZE == 2352

RAW_CD_DATA_OFFSET == 16

DescriptorTag_size == 16

TAG_ANCHOR == 2

TAG_PVD == 1

TAG_PD == 5

TAG_LVD == 6

TAG_TERMINATING == 8

ZeroSector == [i \in {} |-> 0]

ByteOf(content, i) == IF i \in DOMAIN content THEN content[i] ELSE 0

\* to_le_bytes of a u16 / u32 at offset o
Put16(o, v) == (o :> (v % 256)) @@ ((o + 1) :> ((v \div 256) % 256))

Put32(o, v) == Put16(o, v % 65536) @@ Put16(o + 2, v \div 65536)

Ok(v) == [kind |-> "ok", v |-> v]

Err(e) == [kind |-> "err", err |-> e]

Panicked == [kind |-> "panic"]

\* The byte at absolute position p of the source: sector s of the volume
\* starts at s * sector_size + data_offset
ImageByte(img, p) ==
    LET q == p - img.data_offset
    IN  IF q < 0 THEN 0
        ELSE LET s == q \div img.sector_size
                 w == q % img.sector_size
             IN  IF s \in DOMAIN img.sectors
                 THEN ByteOf(img.sectors[s], w) ELSE 0

SourceLen(img) == img.nsectors * img.sector_size + img.data_offset

BufAt(img, buf, i) == ImageByte(img, buf.pos + i)

\* u16::from_le_bytes / u32::from_le_bytes at offset o of a buffer
Get16(img, buf, o) == BufAt(img, buf, o) + 256 * BufAt(img, buf, o + 1)

Get32(img, buf, o) == Get16(img, buf, o) + 65536 * Get16(img, buf, o + 2)

\* tag_location, a u32 nothing is computed from, stays as its four
\* little-endian bytes
DescriptorTag_read(img, buf) ==
    [tag_identifier |-> Get16(img, buf, 0),
     descriptor_version |-> Get16(img, buf, 2),
     tag_checksum |-> BufAt(img, buf, 4),
     _reserved |-> BufAt(img, buf, 5),
     tag_serial_number |-> Get16(img, buf, 6),
     descriptor_crc |-> Get16(img, buf, 8),
     descriptor_crc_length |-> Get16(img, buf, 10),
     tag_location |-> [i \in 1 .. 4 |-> BufAt(img, buf, 11 + i)]]

ExtentAd_read(img, buf, o) ==
    [length_bytes |-> Get32(img, buf, o),
     location_sector |-> Get32(img, buf, o + 4)]

AnchorVolumeDescriptorPointer_read(img, buf) ==
    [tag |-> DescriptorTag_read(img, buf),
     main_volume_descriptor_sequence_location |-> ExtentAd_read(img, buf, 16),
     reserve_volume_descriptor_sequence_location |-> ExtentAd_read(img, buf, 24)]

\* CRC-16, polynomial 0x1021, initial value 0, not reflected, no final xor
RECURSIVE XorBits(_, _, _)
XorBits(a, b, n) ==
    IF n = 0 THEN 0
    ELSE ((a + b) % 2) + 2 * XorBits(a \div 2, b \div 2, n - 1)

Xor16(a, b) == XorBits(a, b, 16)

RECURSIVE CrcShift(_, _)
CrcShift(crc, k) ==
    IF k = 0 THEN crc
    ELSE CrcShift(IF crc >= 32768
                  THEN Xor16((crc * 2) % 65536, 4129)
                  ELSE crc * 2, k - 1)

\* One byte of the table-free form: xor into the high byte, shift eight times.
CrcByte(crc, byte) == CrcShift(Xor16(crc, byte * 256), 8)

\* The bytes lo .. hi folded left to right, split in halves so that the
\* evaluation depth is logarithmic in the length.
RECURSIVE CrcFold(_, _, _, _)
CrcFold(crc, bytes, lo, hi) ==
    IF lo > hi \/ crc \notin 0 .. 65535 THEN crc
    ELSE IF lo = hi THEN CrcByte(crc, bytes[lo])
    ELSE LET mid == (lo + hi) \div 2
         IN  CrcFold(CrcFold(crc, bytes, lo, mid), bytes, mid + 1, hi)

cksum(bytes) == CrcFold(0, bytes, 1, Len(bytes))

RECURSIVE SumBytes(_, _, _)
SumBytes(img, buf, offsets) ==
    IF offsets = {} THEN 0
    ELSE LET o == CHOOSE x \in offsets : TRUE
         IN  BufAt(img, buf, o) + SumBytes(img, buf, offsets \ {o})

ChecksumOffsets == (0 .. 3) \cup (5 .. 15)

\* The checksum taken over bytes 0-3 alone
tag_checksum_ok_FirstFour(img, tag, full_descriptor) ==
    tag.tag_checksum = SumBytes(img, full_descriptor, 0 .. 3) % 256

tag_checksum_ok(img, tag, full_descriptor) ==
    tag.tag_checksum = SumBytes(img, full_descriptor, ChecksumOffsets) % 256

\* Every tag taken as valid
validate_descriptor_tag_Always(img, tag, full_descriptor) == TRUE

validate_descriptor_tag(img, tag, full_descriptor) ==
    LET start == DescriptorTag_size
        end == start + tag.descriptor_crc_length
        stop == Min(end, full_descriptor.len)
        checked_bytes == [i \in 1 .. (stop - start) |->
                             BufAt(img, full_descriptor, start + i - 1)]
    IN  IF ~tag_checksum_ok(img, tag, full_descriptor) THEN FALSE
        ELSE IF tag.descriptor_crc_length > 0
                /\ cksum(checked_bytes) # tag.descriptor_crc THEN FALSE
        ELSE TRUE

(***************************************************************************)
(* Anchor discovery (udf_parser.rs, read_anchor)                           *)
(***************************************************************************)
RECURSIVE SumContent(_, _)
SumContent(content, offsets) ==
    IF offsets = {} THEN 0
    ELSE LET o == CHOOSE x \in offsets : TRUE
         IN  ByteOf(content, o) + SumContent(content, offsets \ {o})

\* DescriptorTag as a disc writer records it: the checksum over bytes 0-3
\* and 5-15, and the CRC over the crc_length bytes after the tag
Sealed(content) ==
    (4 :> (SumContent(content, ChecksumOffsets) % 256)) @@ content

WithCrc(content, crc_length) ==
    Put16(8, cksum([i \in 1 .. crc_length |-> ByteOf(content, 15 + i)]))
        @@ Put16(10, crc_length) @@ content

MainLocation == 32

ReserveLocation == 48

AnchorBody(main_length, reserve_length, sector) ==
    Put16(0, TAG_ANCHOR) @@ Put16(2, 2) @@ Put32(12, sector)
        @@ Put32(16, main_length) @@ Put32(20, MainLocation)
        @@ Put32(24, reserve_length) @@ Put32(28, ReserveLocation)

VdsLength == 16 * LOGICAL_SECTOR_SIZE

AnchorKinds ==
    {"zero", "anchor", "anchor_crc", "bad_checksum", "bad_crc", "pvd_tag"}

SectorOfKind(kind, sector) ==
    LET body == AnchorBody(VdsLength, VdsLength, sector)
        with_crc == WithCrc(body, 16)
    IN  CASE kind = "zero" -> ZeroSector
          [] kind = "anchor" -> Sealed(body)
          [] kind = "anchor_crc" -> Sealed(with_crc)
          [] kind = "bad_checksum" ->
                (4 :> ((Sealed(body)[4] + 1) % 256)) @@ body
          [] kind = "bad_crc" ->
                Sealed((8 :> ((with_crc[8] + 1) % 256)) @@ with_crc)
          [] kind = "pvd_tag" ->
                Sealed(Put16(0, TAG_PVD) @@ Put16(2, 2) @@ Put32(12, sector))

\* The readers the parser is built over: an in-memory or file source with
\* 512-, 2048- and raw 2352-byte sectors, and the DVD drive
Sources ==
    << [kind |-> "cursor", sector_size |-> 512, data_offset |-> 0],
       [kind |-> "cursor", sector_size |-> LOGICAL_SECTOR_SIZE, data_offset |-> 0],
       [kind |-> "cursor", sector_size |-> RAW_CD_SECTOR_SIZE,
        data_offset |-> RAW_CD_DATA_OFFSET],
       [kind |-> "dvdcss", sector_size |-> LOGICAL_SECTOR_SIZE, data_offset |-> 0] >>

SectorCounts == <<257, 600, 260, 512, 256, 100>>

Place(s, content, n) ==
    IF s >= 0 /\ s < n THEN (s :> content) ELSE ZeroSector

AnchorImage(src, n, a, b, c) ==
    [kind |-> src.kind, sector_size |-> src.sector_size,
     data_offset |-> src.data_offset, nsectors |-> n,
     sectors |-> Place(256, SectorOfKind(a, 256), n)
                 @@ Place(n - 256, SectorOfKind(b, n - 256), n)
                 @@ Place(n - 1, SectorOfKind(c, n - 1), n)]

\* A u32 sector number; a - b below zero wraps to 2^32 + (a - b), kept as
\* the difference with the wrapped mark
U32(v) == [v |-> v, wrapped |-> FALSE]

U32Sub(a, b) == [v |-> a - b, wrapped |-> a < b]

\* seek_to_sector and read_exact of a len-byte buffer: the seek's result
\* is dropped where the caller drops it, the read fails past the end
ReadSector(img, sector, len) ==
    LET pos == sector.v * img.sector_size + img.data_offset
    IN  IF sector.wrapped \/ pos + len > SourceLen(img)
        THEN Err("Io")
        ELSE Ok([pos |-> pos, len |-> len])

read_anchor_at_sector(img, sector) ==
    LET rd == ReadSector(img, sector, LOGICAL_SECTOR_SIZE)
    IN  IF rd.kind # "ok" THEN rd
        ELSE LET anchor == AnchorVolumeDescriptorPointer_read(img, rd.v)
             IN  IF ~validate_descriptor_tag(img, anchor.tag, rd.v)
                 THEN Err("InvalidDescriptorTag")
                 ELSE Ok(anchor)

\* stream_position and SeekFrom::End panic on the DVD drive's reader
get_total_sectors(img) ==
    IF img.kind = "dvdcss" THEN Panicked
    ELSE Ok((SourceLen(img) - img.data_offset) \div img.sector_size)

read_anchor(img, build) ==
    LET first == U32(256)
        r1 == read_anchor_at_sector(img, first)
        total_sectors == get_total_sectors(img)
        second == U32Sub(total_sectors.v, 256)
        r2 == read_anchor_at_sector(img, second)
        third == U32Sub(total_sectors.v, 1)
    IN  IF r1.kind = "ok" THEN [result |-> r1, probes |-> <<first>>]
        ELSE IF total_sectors.kind # "ok"
        THEN [result |-> total_sectors, probes |-> <<first>>]
        ELSE IF second.wrapped /\ build = "debug"
        THEN [result |-> Panicked, probes |-> <<first>>]
        ELSE IF r2.kind = "ok" THEN [result |-> r2, probes |-> <<first, second>>]
        ELSE IF third.wrapped /\ build = "debug"
        THEN [result |-> Panicked, probes |-> <<first, second>>]
        ELSE [result |-> read_anchor_at_sector(img, third),
              probes |-> <<first, second, third>>]

InitAnchor ==
    \E a, b, c \in AnchorKinds, build \in Builds,
       m \in DOMAIN SectorCounts, k \in DOMAIN Sources :
       /\ Sources[k].kind = "dvdcss" => SectorCounts[m] > 256
       /\ anc = [pc |-> "call", build |-> build,
                 image |-> AnchorImage(Sources[k], SectorCounts[m], a, b, c)]

\* One call of read_anchor
ReadAnchor ==
    /\ anc.pc = "call"
    /\ anc' = [anc EXCEPT !.pc = "done"]
                  @@ read_anchor(anc.image, anc.build)
    /\ UNCHANGED <<cacheVars, addr, vds, laterVars>>

SpecAnchorInit == CacheIdle /\ addr = Idle /\ InitAnchor /\ vds = Idle /\ OthersIdle

SpecAnchorNext == ReadAnchor

SpecAnchor == SpecAnchorInit /\ [][SpecAnchorNext]_vars

\* What a sector holds, read off its content
DecodeAnchor(content) ==
    AnchorVolumeDescriptorPointer_read(
        [sector_size |-> LOGICAL_SECTOR_SIZE, data_offset |-> 0,
         sectors |-> (0 :> content)],
        [pos |-> 0, len |-> LOGICAL_SECTOR_SIZE])

HoldsValidAnchor(img, s) ==
    /\ s \in DOMAIN img.sectors
    /\ LET content == img.sectors[s]
           tag == DecodeAnchor(content).tag
       IN  /\ tag.tag_identifier = TAG_ANCHOR
           /\ tag.tag_checksum = SumContent(content, ChecksumOffsets) % 256
           /\ \/ tag.descriptor_crc_length = 0
              \/ tag.descriptor_crc =
                    cksum([i \in 1 .. tag.descriptor_crc_length |->
                              ByteOf(content, 15 + i)])

HoldsZeros(img, s) ==
    /\ s >= 0 /\ s < img.nsectors
    /\ s \in DOMAIN img.sectors => \A o \in DOMAIN img.sectors[s] : img.sectors[s][o] = 0

TotalSectors(img) == (SourceLen(img) - img.data_offset) \div img.sector_size

\* C7: read_anchor returns Ok only with a descriptor whose tag is valid and
\* whose tag_identifier is 2; where sector 256 is all zero bytes and sector
\* N-256 holds a valid anchor with crc_length 0, the result is the anchor
\* stored at N-256.
C7_AnchorAcceptance ==
    anc.pc = "done" =>
        /\ anc.result.kind = "ok" =>
              /\ anc.result.v.tag.tag_identifier = TAG_ANCHOR
              /\ HoldsValidAnchor(anc.image, Last(anc.probes).v)
        /\ LET n == TotalSectors(anc.image)
           IN  ( /\ HoldsZeros(anc.image, 256)
                 /\ n - 256 # 256
                 /\ HoldsValidAnchor(anc.image, n - 256)
                 /\ DecodeAnchor(anc.image.sectors[n - 256])
                        .tag.descriptor_crc_length = 0 )
               => anc.result = Ok(DecodeAnchor(anc.image.sectors[n - 256]))

\* C8: read_anchor probes sector 256, then N-256, then N-1, returns the
\* anchor of the first probe that succeeds without probing further, and an
\* error when all three fail; a valid anchor at sector 256 is returned even
\* from an image of only 257 sectors.
C8_AnchorDiscoveryOrder ==
    anc.pc = "done" =>
        LET img == anc.image
            n == TotalSectors(img)
            order == <<U32(256), U32Sub(n, 256), U32Sub(n, 1)>>
            failed(i) == read_anchor_at_sector(img, order[i]).kind # "ok"
        IN  /\ anc.result.kind \in {"ok", "err"}
            /\ IsPrefix(anc.probes, order)
            /\ \A i \in 1 .. (Len(anc.probes) - 1) : failed(i)
            /\ anc.result.kind = "ok" => ~failed(Len(anc.probes))
            /\ anc.result.kind = "err" =>
                  Len(anc.probes) = 3 /\ failed(3)
            /\ (n = 257 /\ HoldsValidAnchor(img, 256)) =>
                  anc.result = Ok(DecodeAnchor(img.sectors[256]))

(***************************************************************************)
(* Volume descriptor sequences (udf.rs, udf_parser.rs, udf_high_level.rs)  *)
(***************************************************************************)
LogicalVolumeDescriptor_size == 440

PrimaryVolumeDescriptor_read(img, buf) ==
    [tag |-> DescriptorTag_read(img, buf),
     volume_descriptor_sequence_number |-> Get32(img, buf, 16),
     primary_volume_descriptor_number |-> Get32(img, buf, 20),
     volume_identifier |-> [i \in 1 .. 32 |-> BufAt(img, buf, 23 + i)]]

LogicalVolumeDescriptor_read(img, buf) ==
    [tag |-> DescriptorTag_read(img, buf),
     volume_descriptor_sequence_number |-> Get32(img, buf, 16),
     logical_block_size |-> Get32(img, buf, 212),
     map_table_length |-> Get32(img, buf, 264),
     number_of_partition_maps |-> Get32(img, buf, 268)]

PartitionDescriptor_read(img, buf) ==
    [tag |-> DescriptorTag_read(img, buf),
     volume_descriptor_sequence_number |-> Get32(img, buf, 16),
     partition_number |-> Get16(img, buf, 22),
     partition_starting_location |-> Get32(img, buf, 188),
     partition_length |-> Get32(img, buf, 192)]

PartitionMap_read(img, bytes) ==
    LET map_type == BufAt(img, bytes, 0)
        map_length == BufAt(img, bytes, 1)
        header == [partition_map_type |-> map_type,
                   partition_map_length |-> map_length]
    IN  IF bytes.len < 2 THEN Err("UnexpectedEof")
        ELSE IF bytes.len < map_length THEN Err("UnexpectedEof")
        ELSE IF map_type = 1
        THEN IF map_length # 6 THEN Err("InvalidData")
             ELSE Ok([type |-> "Type1", header |-> header,
                      volume_seq_number |-> Get16(img, bytes, 2),
                      partition_number |-> Get16(img, bytes, 4)])
        ELSE IF map_type = 2
        THEN IF map_length # 64 THEN Err("InvalidData")
             ELSE Ok([type |-> "Type2", header |-> header,
                      reserved1 |-> [i \in 1 .. 2 |-> BufAt(img, bytes, 1 + i)],
                      partition_type_identifier |->
                          [i \in 1 .. 32 |-> BufAt(img, bytes, 3 + i)]])
        ELSE Ok([type |-> "Other", header |-> header,
                 data |-> [i \in 1 .. map_length |-> BufAt(img, bytes, i - 1)]])

get_length(map) ==
    CASE map.type = "Type1" -> 6
      [] map.type = "Type2" -> 64
      [] OTHER -> map.header.partition_map_length

read_primary_volume_descriptor(img, location) ==
    LET rd == ReadSector(img, U32(location), LOGICAL_SECTOR_SIZE)
    IN  IF rd.kind # "ok" THEN rd
        ELSE LET pvd == PrimaryVolumeDescriptor_read(img, rd.v)
             IN  IF ~validate_descriptor_tag(img, pvd.tag, rd.v)
                 THEN Err("InvalidDescriptorTag")
                 ELSE Ok(pvd)

\* The while loop over the partition map table
RECURSIVE read_partition_maps(_, _, _, _, _, _)
read_partition_maps(img, partition_map_buf, lvd, offset, maps_read, partition_maps) ==
    IF maps_read >= lvd.number_of_partition_maps
    THEN IF offset # lvd.map_table_length
         THEN Err("InvalidPartitionMap")
         ELSE Ok(partition_maps)
    ELSE IF offset + 2 > partition_map_buf.len THEN Err("BufferTooSmall")
    ELSE LET map_length == BufAt(img, partition_map_buf, offset + 1)
             rest == [pos |-> partition_map_buf.pos + offset,
                      len |-> partition_map_buf.len - offset]
             map == PartitionMap_read(img, rest)
         IN  IF offset + map_length > partition_map_buf.len
             THEN Err("BufferTooSmall")
             ELSE IF map.kind # "ok" THEN Err("InvalidPartitionMap")
             ELSE read_partition_maps(img, partition_map_buf, lvd,
                                      offset + get_length(map.v),
                                      maps_read + 1,
                                      Append(partition_maps, map.v))

\* The division rounded down
DivCeil_Floor(a, b) == a \div b

DivCeil(a, b) == (a + b - 1) \div b

read_logical_volume_descriptor(img, location) ==
    LET rd == ReadSector(img, U32(location), LOGICAL_SECTOR_SIZE)
        lvd == LogicalVolumeDescriptor_read(img, rd.v)
        total == DivCeil(1 + lvd.map_table_length, LOGICAL_SECTOR_SIZE)
                     * LOGICAL_SECTOR_SIZE
        partition_map_extra_buf == [pos |-> rd.v.pos, len |-> total]
        partition_map_buf ==
            [pos |-> rd.v.pos + LogicalVolumeDescriptor_size,
             len |-> total - LogicalVolumeDescriptor_size]
    IN  IF rd.kind # "ok" THEN rd
        ELSE IF lvd.map_table_length = 0
        THEN Ok([lvd |-> lvd, partition_maps |-> <<>>])
        ELSE IF rd.v.pos + total > SourceLen(img) THEN Err("Io")
        ELSE IF ~validate_descriptor_tag(img, lvd.tag, partition_map_extra_buf)
        THEN Err("InvalidDescriptorTag")
        ELSE LET maps == read_partition_maps(img, partition_map_buf, lvd,
                                             0, 0, <<>>)
             IN  IF maps.kind # "ok" THEN maps
                 ELSE Ok([lvd |-> lvd, partition_maps |-> maps.v])

\* logical_volume = Some(lvd) on every Logical Volume Descriptor read
keeps_new_lvd_Always(logical_volume, lvd) == TRUE

\* logical_volume.iter().all(|old_volume| old < new)
keeps_new_lvd(logical_volume, lvd) ==
    logical_volume.some =>
        logical_volume.v.volume_descriptor_sequence_number
            < lvd.volume_descriptor_sequence_number

NoPartitions == [p \in {} |-> 0]

NoStructures ==
    [primary_volume |-> NoneValue, logical_volume |-> NoneValue,
     partition_maps |-> NoneValue, partition_descriptors |-> NoPartitions]

\* The value returned once the loop is left
sequence_result(st) ==
    IF st.primary_volume.some /\ st.logical_volume.some /\ st.partition_maps.some
    THEN Ok(Some([primary_volume |-> st.primary_volume.v,
                  logical_volume |-> st.logical_volume.v,
                  partition_maps |-> st.partition_maps.v,
                  partition_descriptors |-> st.partition_descriptors]))
    ELSE Ok(NoneValue)

\* The while loop over the sectors of the sequence
RECURSIVE sequence_loop(_, _, _, _, _)
sequence_loop(img, current_location, end_location, st, reads) ==
    IF current_location >= end_location
    THEN [result |-> sequence_result(st), reads |-> reads]
    ELSE
    LET rd == ReadSector(img, U32(current_location),
                         Max(DescriptorTag_size, DVDCSS_BLOCK_SIZE))
        tag == DescriptorTag_read(img, rd.v)
        seen == Append(reads, current_location)
        pvd == read_primary_volume_descriptor(img, current_location)
        pd == PartitionDescriptor_read(img, rd.v)
        lv == read_logical_volume_descriptor(img, current_location)
        failure ==
            IF rd.kind # "ok" THEN rd
            ELSE IF tag.tag_identifier = TAG_PVD /\ pvd.kind # "ok" THEN pvd
            ELSE IF tag.tag_identifier = TAG_LVD /\ lv.kind # "ok" THEN lv
            ELSE Ok("none")
        st2 ==
            IF tag.tag_identifier = TAG_PVD
            THEN [st EXCEPT !.primary_volume = Some(pvd.v)]
            ELSE IF tag.tag_identifier = TAG_PD
            THEN [st EXCEPT !.partition_descriptors =
                                (pd.partition_number :> pd) @@ @]
            ELSE IF tag.tag_identifier = TAG_LVD
                    /\ keeps_new_lvd(st.logical_volume, lv.v.lvd)
            THEN [st EXCEPT !.logical_volume = Some(lv.v.lvd),
                            !.partition_maps = Some(lv.v.partition_maps)]
            ELSE st
    IN  IF failure.kind # "ok" THEN [result |-> failure, reads |-> seen]
        ELSE IF tag.tag_identifier = TAG_TERMINATING
        THEN [result |-> sequence_result(st), reads |-> seen]
        ELSE sequence_loop(img, current_location + 1, end_location, st2, seen)

read_volume_descriptor_sequence(img, start_location, length) ==
    sequence_loop(img, start_location,
                  start_location + DivCeil(length, img.sector_size),
                  NoStructures, <<>>)

\* structures.is_none()
tries_reserve_Never(structures) == FALSE

tries_reserve(structures) == ~structures.some

ok_or(option, e) == IF option.some THEN Ok(option.v) ELSE Err(e)

\* The reserve sequence scanned: lines 48-57
after_reserve(main, reserve) ==
    [result |-> IF reserve.result.kind # "ok" THEN reserve.result
                ELSE ok_or(reserve.result.v, "InvalidDescriptorTag"),
     scans |-> <<"main", "reserve">>,
     main_reads |-> main.reads, reserve_reads |-> reserve.reads]

\* The main sequence scanned: lines 46-60
after_main(img, anchor, main) ==
    IF main.result.kind # "ok"
    THEN [result |-> main.result, scans |-> <<"main">>,
          main_reads |-> main.reads, reserve_reads |-> <<>>]
    ELSE IF tries_reserve(main.result.v)
    THEN after_reserve(main,
            read_volume_descriptor_sequence(img,
                anchor.reserve_volume_descriptor_sequence_location.location_sector,
                anchor.reserve_volume_descriptor_sequence_location.length_bytes))
    ELSE [result |-> ok_or(main.result.v, "InvalidDescriptorTag"),
          scans |-> <<"main">>,
          main_reads |-> main.reads, reserve_reads |-> <<>>]

\* The anchor read: lines 35-44
after_anchor(img, found) ==
    IF found.kind # "ok"
    THEN [result |-> found, scans |-> <<>>,
          main_reads |-> <<>>, reserve_reads |-> <<>>]
    ELSE after_main(img, found.v,
            read_volume_descriptor_sequence(img,
                found.v.main_volume_descriptor_sequence_location.location_sector,
                found.v.main_volume_descriptor_sequence_location.length_bytes))

read_volume_structures(img, build) ==
    after_anchor(img, read_anchor(img, build).result)

\* The two copies of the sequence are told apart by what their descriptors
\* carry: the second character of the volume identifier, the logical block
\* size and the partition starting location
MainStamp == 77

ReserveStamp == 82

BlockSizeOf(stamp) == IF stamp = MainStamp THEN 2048 ELSE 4096

PartitionStartOf(stamp) == 200 + stamp

VdsKinds == {"pvd3", "pvd5", "pvd_bad", "lvd", "pd", "term", "zero"}

TagBody(tag_identifier, sector) ==
    Put16(0, tag_identifier) @@ Put16(2, 2) @@ Put32(12, sector)

PvdBody(seq, stamp, sector) ==
    TagBody(TAG_PVD, sector) @@ Put32(16, seq)
        @@ (24 :> 8) @@ (25 :> stamp) @@ (26 :> (48 + seq))

\* A Logical Volume Descriptor with one Type 1 partition map
LvdBody(seq, stamp, sector, partition_number) ==
    TagBody(TAG_LVD, sector) @@ Put32(16, seq)
        @@ Put32(212, BlockSizeOf(stamp))
        @@ Put32(264, 6) @@ Put32(268, 1)
        @@ (440 :> 1) @@ (441 :> 6) @@ Put16(442, 1)
        @@ Put16(444, partition_number)

VdsSector(kind, stamp, sector) ==
    CASE kind = "pvd3" -> Sealed(PvdBody(3, stamp, sector))
      [] kind = "pvd5" -> Sealed(WithCrc(PvdBody(5, stamp, sector), 8))
      [] kind = "pvd_bad" ->
            (4 :> ((Sealed(PvdBody(4, stamp, sector))[4] + 1) % 256))
                @@ PvdBody(4, stamp, sector)
      [] kind = "lvd" -> Sealed(LvdBody(1, stamp, sector, 0))
      [] kind = "lvd_tie" -> Sealed(LvdBody(1, stamp, sector, 1))
      [] kind = "lvd2" -> Sealed(LvdBody(2, stamp, sector, 2))
      [] kind = "lvd3_nomaps" ->
            Sealed(TagBody(TAG_LVD, sector) @@ Put32(16, 3)
                   @@ Put32(212, BlockSizeOf(stamp)))
      [] kind = "pd" ->
            Sealed(TagBody(TAG_PD, sector) @@ Put32(16, 2) @@ Put16(22, 0)
                   @@ Put32(188, PartitionStartOf(stamp)) @@ Put32(192, 1000))
      [] kind = "term" -> Sealed(TagBody(TAG_TERMINATING, sector))
      [] kind = "zero" -> ZeroSector

MaxMain == 3

RECURSIVE SeqsUpTo(_, _)
SeqsUpTo(S, n) ==
    IF n = 0 THEN {<<>>}
    ELSE LET shorter == SeqsUpTo(S, n - 1)
         IN  shorter \cup {Append(q, x) : q \in shorter, x \in S}

ReserveChoices ==
    { <<>>, <<"pvd3", "lvd">>, <<"pd", "pvd5", "lvd", "term">>,
      <<"pvd5", "zero">>, <<"lvd", "pvd_bad">>, <<"zero", "lvd", "pvd3", "pd">> }

VdsSectors == 600

Extent(location, kinds, stamp) ==
    [s \in location .. (location + Len(kinds) - 1) |->
        VdsSector(kinds[s - location + 1], stamp, s)]

VdsImage(main, reserve) ==
    [kind |-> "cursor", sector_size |-> LOGICAL_SECTOR_SIZE,
     data_offset |-> 0, nsectors |-> VdsSectors,
     sectors |-> (256 :> Sealed(AnchorBody(Len(main) * LOGICAL_SECTOR_SIZE,
                                           Len(reserve) * LOGICAL_SECTOR_SIZE,
                                           256)))
                 @@ Extent(MainLocation, main, MainStamp)
                 @@ Extent(ReserveLocation, reserve, ReserveStamp)]

InitVds ==
    \E main \in SeqsUpTo(VdsKinds, MaxMain), reserve \in ReserveChoices,
       build \in Builds :
       vds = [pc |-> "call", build |-> build, main |-> main,
              reserve |-> reserve, image |-> VdsImage(main, reserve)]

\* One call of read_volume_structures
ReadVolumeStructures ==
    /\ vds.pc = "call"
    /\ vds' = [vds EXCEPT !.pc = "done"]
                  @@ read_volume_structures(vds.image, vds.build)
    /\ UNCHANGED <<cacheVars, addr, anc, laterVars>>

SpecVdsInit == CacheIdle /\ addr = Idle /\ anc = Idle /\ InitVds /\ OthersIdle

SpecVdsNext == ReadVolumeStructures

SpecVds == SpecVdsInit /\ [][SpecVdsNext]_vars

\* A sequence scanned on its own
ScanOf(img, location, kinds) ==
    read_volume_descriptor_sequence(img, location,
                                    Len(kinds) * LOGICAL_SECTOR_SIZE).result

\* The structures carry nothing but what the copy with this stamp holds
BuiltFrom(structures, stamp) ==
    /\ structures.primary_volume.volume_identifier[2] = stamp
    /\ structures.logical_volume.logical_block_size = BlockSizeOf(stamp)
    /\ \A p \in DOMAIN structures.partition_descriptors :
          structures.partition_descriptors[p].partition_starting_location
              = PartitionStartOf(stamp)

InExtent(reads, location, kinds) ==
    \A i \in DOMAIN reads :
        reads[i] >= location /\ reads[i] < location + Len(kinds)

\* C9: read_volume_structures scans the main sequence first; when that
\* scan completes without a PVD, an LVD and its partition maps, it scans the
\* reserve sequence and returns structures built from the reserve scan
\* alone, or Err(InvalidDescriptorTag) when the reserve scan is incomplete
\* too.  When the main scan is complete the reserve sequence is never read
\* and the result carries the main sequence's volume_identifier and
\* logical_block_size.
C9_ReserveFallback ==
    vds.pc = "done" =>
        LET main == ScanOf(vds.image, MainLocation, vds.main)
            reserve == ScanOf(vds.image, ReserveLocation, vds.reserve)
        IN  /\ vds.scans # <<>> /\ vds.scans[1] = "main"
            /\ InExtent(vds.main_reads, MainLocation, vds.main)
            /\ InExtent(vds.reserve_reads, ReserveLocation, vds.reserve)
            /\ (main.kind = "ok" /\ main.v.some) =>
                  /\ vds.scans = <<"main">>
                  /\ vds.reserve_reads = <<>>
                  /\ vds.result = Ok(main.v.v)
                  /\ BuiltFrom(vds.result.v, MainStamp)
            /\ (main.kind = "ok" /\ ~main.v.some) =>
                  /\ vds.scans = <<"main", "reserve">>
                  /\ (reserve.kind = "ok" /\ reserve.v.some) =>
                        /\ vds.result = Ok(reserve.v.v)
                        /\ BuiltFrom(vds.result.v, ReserveStamp)
                  /\ (reserve.kind = "ok" /\ ~reserve.v.some) =>
                        vds.result = Err("InvalidDescriptorTag")

\* The main scan saw a PVD and a partition descriptor but no LVD; the
\* result is the reserve sequence's, without the main's partition
C9_Witness ==
    /\ vds.pc = "done"
    /\ vds.main = <<"pd", "pvd3">>
    /\ vds.scans = <<"main", "reserve">>
    /\ vds.reserve_reads # <<>>
    /\ vds.result.kind = "ok"
    /\ vds.result.v.partition_descriptors = NoPartitions
    /\ vds.result.v.primary_volume.volume_identifier[2] = ReserveStamp

\* The Primary Volume Descriptors a scan read, by sector
PvdsSeen(img, reads) ==
    {PrimaryVolumeDescriptor_read(img,
         [pos |-> reads[i] * img.sector_size + img.data_offset,
          len |-> LOGICAL_SECTOR_SIZE]) : i \in DOMAIN reads}

\* C10: when one scan meets several Primary Volume Descriptors, the one in
\* VolumeStructures.primary_volume has the highest
\* volume_descriptor_sequence_number of those seen, whatever their order
\* on disk.
C10_PvdSelection ==
    (vds.pc = "done" /\ vds.result.kind = "ok") =>
        LET reads == IF Len(vds.scans) = 2 THEN vds.reserve_reads
                     ELSE vds.main_reads
        IN  \A pvd \in PvdsSeen(vds.image, reads) :
               pvd.tag.tag_identifier = TAG_PVD =>
                  pvd.volume_descriptor_sequence_number
                     <= vds.result.v.primary_volume.volume_descriptor_sequence_number

(***************************************************************************)
(* Several Logical Volume Descriptors in one sequence                      *)
(***************************************************************************)
LvdKinds == {"pvd3", "lvd", "lvd_tie", "lvd2", "lvd3_nomaps"}

MaxLvds == 4

InitLvd ==
    \E main \in SeqsUpTo(LvdKinds, MaxLvds), build \in Builds :
       vds = [pc |-> "call", build |-> build, main |-> main,
              reserve |-> <<>>, image |-> VdsImage(main, <<>>)]

SpecLvdInit == CacheIdle /\ addr = Idle /\ anc = Idle /\ InitLvd /\ OthersIdle

SpecLvd == SpecLvdInit /\ [][SpecVdsNext]_vars

SectorWindow(img, s) ==
    [pos |-> s * img.sector_size + img.data_offset, len |-> LOGICAL_SECTOR_SIZE]

\* The sectors of a scan that hold a Logical Volume Descriptor, in the
\* order they were read
RECURSIVE LvdsSeen(_, _)
LvdsSeen(img, reads) ==
    IF reads = <<>> THEN <<>>
    ELSE LET s == Head(reads)
         IN  (IF Get16(img, SectorWindow(img, s), 0) = TAG_LVD
              THEN <<s>> ELSE <<>>) \o LvdsSeen(img, Tail(reads))

SeqNumberAt(img, s) == Get32(img, SectorWindow(img, s), 16)

\* The first of the descriptors with the highest sequence number
Highest(img, sectors) ==
    CHOOSE i \in DOMAIN sectors :
        \A j \in DOMAIN sectors :
            /\ SeqNumberAt(img, sectors[j]) <= SeqNumberAt(img, sectors[i])
            /\ j < i => SeqNumberAt(img, sectors[j]) < SeqNumberAt(img, sectors[i])

\* C11: of several Logical Volume Descriptors met in one scan the one kept
\* has the highest volume_descriptor_sequence_number, the first one met
\* winning a tie, and partition_maps is the map table of that same
\* descriptor.
C11_LvdSelection ==
    (vds.pc = "done" /\ vds.result.kind = "ok") =>
        LET img == vds.image
            seen == LvdsSeen(img, vds.main_reads)
            kept == seen[Highest(img, seen)]
            maps == vds.result.v.partition_maps
        IN  /\ seen # <<>>
            /\ vds.result.v.logical_volume
                  = LogicalVolumeDescriptor_read(img, SectorWindow(img, kept))
            /\ Len(maps) = Get32(img, SectorWindow(img, kept), 268)
            /\ \A i \in DOMAIN maps :
                  maps[i].partition_number
                     = Get16(img, SectorWindow(img, kept), 444 + 6 * (i - 1))

\* Three descriptors were met and the one kept is neither the first nor
\* the last of them
C11_Witness ==
    /\ vds.pc = "done" /\ vds.result.kind = "ok"
    /\ LET seen == LvdsSeen(vds.image, vds.main_reads)
       IN  /\ Len(seen) = 3
           /\ Highest(vds.image, seen) = 2
           /\ SeqNumberAt(vds.image, seen[3]) = SeqNumberAt(vds.image, seen[2])
           /\ vds.result.v.partition_maps # <<>>

(***************************************************************************)
(* The partition map table of a Logical Volume Descriptor                  *)
(***************************************************************************)
\* Map table entries as recorded: type, length and the bytes after them
MapEntry(kind) ==
    CASE kind = "type1" -> <<1, 6, 1, 0, 0, 0>>
      [] kind = "type1_len8" -> <<1, 8, 1, 0, 0, 0, 0, 0>>
      [] kind = "type2" -> <<2, 64, 0, 0, 0, 42>> \o [i \in 1 .. 58 |-> 0]
      [] kind = "type2_len6" -> <<2, 6, 0, 0, 0, 42>>
      [] kind = "other" -> <<7, 10, 1, 2, 3, 4, 5, 6, 7, 8>>

MapEntryKinds == {"type1", "type1_len8", "type2", "type2_len6", "other"}

MaxMaps == 2

RECURSIVE TableBytes(_)
TableBytes(table) ==
    IF table = <<>> THEN <<>>
    ELSE MapEntry(Head(table)) \o TableBytes(Tail(table))

RECURSIVE SumLengths(_)
SumLengths(table) ==
    IF table = <<>> THEN 0
    ELSE MapEntry(Head(table))[2] + SumLengths(Tail(table))

BytesAt(o, bytes) == [i \in o .. (o + Len(bytes) - 1) |-> bytes[i - o + 1]]

LvdWithTable(sector, map_table_length, number_of_partition_maps, table) ==
    Sealed(TagBody(TAG_LVD, sector) @@ Put32(16, 1) @@ Put32(212, 2048)
           @@ Put32(264, map_table_length)
           @@ Put32(268, number_of_partition_maps)
           @@ BytesAt(LogicalVolumeDescriptor_size, TableBytes(table)))

MapTableLengths == {0, 6, 12, 64, 70}

InitMaps ==
    \E table \in SeqsUpTo(MapEntryKinds, MaxMaps),
       n \in 0 .. (MaxMaps + 1), extra \in MapTableLengths :
       \E mtl \in {extra, SumLengths(table)} :
          call = [pc |-> "call", fn |-> "read_logical_volume_descriptor",
                  table |-> table,
                  image |-> [kind |-> "cursor",
                             sector_size |-> LOGICAL_SECTOR_SIZE,
                             data_offset |-> 0, nsectors |-> VdsSectors,
                             sectors |-> (MainLocation :>
                                 LvdWithTable(MainLocation, mtl, n, table))]]

\* One call of read_logical_volume_descriptor
ReadLogicalVolumeDescriptor ==
    /\ call.pc = "call" /\ call.fn = "read_logical_volume_descriptor"
    /\ call' = [call EXCEPT !.pc = "done"]
                   @@ [result |-> read_logical_volume_descriptor(call.image,
                                                                  MainLocation)]
    /\ UNCHANGED <<cacheVars, addr, anc, vds, walk, copy>>

SpecMapsInit ==
    /\ CacheIdle /\ addr = Idle /\ anc = Idle /\ vds = Idle
    /\ InitMaps /\ walk = Idle /\ copy = Idle

SpecMaps == SpecMapsInit /\ [][ReadLogicalVolumeDescriptor]_vars

RECURSIVE EncodedLengths(_)
EncodedLengths(maps) ==
    IF maps = <<>> THEN 0
    ELSE get_length(Head(maps)) + EncodedLengths(Tail(maps))

\* The entries the descriptor announces: the first number_of_partition_maps
\* of the table (zero bytes follow the recorded ones)
Announced(table, n) ==
    [i \in 1 .. n |-> IF i <= Len(table) THEN MapEntry(table[i]) ELSE <<0, 0>>]

\* C12: Ok((lvd, maps)) has exactly number_of_partition_maps maps whose
\* encoded lengths add up to map_table_length; a mismatch between the bytes
\* consumed and map_table_length (map_table_length 0 with maps announced
\* included) and a Type 1 entry of length other than 6 or a Type 2 entry of
\* length other than 64 give Err(InvalidPartitionMap).
C12_MapTableConsistency ==
    call.pc = "done" =>
        LET lvd == LogicalVolumeDescriptor_read(call.image,
                                                SectorWindow(call.image, MainLocation))
            entries == Announced(call.table, lvd.number_of_partition_maps)
            consumed == SumLengths(SubSeq(call.table, 1,
                                          Min(Len(call.table),
                                              lvd.number_of_partition_maps)))
            malformed == \E i \in DOMAIN entries :
                            \/ entries[i][1] = 1 /\ entries[i][2] # 6
                            \/ entries[i][1] = 2 /\ entries[i][2] # 64
        IN  /\ call.result.kind = "ok" =>
                  /\ Len(call.result.v.partition_maps) = lvd.number_of_partition_maps
                  /\ EncodedLengths(call.result.v.partition_maps)
                        = lvd.map_table_length
            /\ (malformed \/ consumed # lvd.map_table_length) =>
                  call.result = Err("InvalidPartitionMap")

(***************************************************************************)
(* validate_descriptor_tag on its own                                      *)
(***************************************************************************)
NoFlip == [byte |-> 0 - 1, bit |-> 0]

Flips == {NoFlip} \cup [byte : ChecksumOffsets, bit : 0 .. 7]

FlipBit(content, flip) ==
    IF flip = NoFlip THEN content
    ELSE (flip.byte :> XorBits(ByteOf(content, flip.byte), 2 ^ flip.bit, 8))
             @@ content

\* A source whose sector 256 holds the given content
OneSector(content) ==
    [kind |-> "cursor", sector_size |-> LOGICAL_SECTOR_SIZE, data_offset |-> 0,
     nsectors |-> VdsSectors, sectors |-> (256 :> content)]

Accepts(content, len) ==
    LET img == OneSector(content)
        buf == [pos |-> 256 * LOGICAL_SECTOR_SIZE, len |-> len]
    IN  validate_descriptor_tag(img, DescriptorTag_read(img, buf), buf)

InitTag ==
    \E kind \in AnchorKinds, flip \in Flips :
       call = [pc |-> "call", fn |-> "validate_descriptor_tag", kind |-> kind,
               flip |-> flip, len |-> LOGICAL_SECTOR_SIZE,
               base |-> SectorOfKind(kind, 256),
               content |-> FlipBit(SectorOfKind(kind, 256), flip)]

\* One call of validate_descriptor_tag on a tag decoded from the buffer
ValidateDescriptorTag ==
    /\ call.pc = "call" /\ call.fn = "validate_descriptor_tag"
    /\ call' = [call EXCEPT !.pc = "done"]
                   @@ [result |-> Accepts(call.content, call.len)]
    /\ UNCHANGED <<cacheVars, addr, anc, vds, walk, copy>>

SpecTagInit ==
    /\ CacheIdle /\ addr = Idle /\ anc = Idle /\ vds = Idle
    /\ InitTag /\ walk = Idle /\ copy = Idle

SpecTag == SpecTagInit /\ [][ValidateDescriptorTag]_vars

CrcLengths == {0, 1, 3, 8, 496, 2031, 2032, 2033, 2040, 4000}

\* Descriptor bodies (the bytes after the tag)
CrcBodies == {"blank", "example", "spread"}

BodyOf(body) ==
    CASE body = "blank" -> ZeroSector
      [] body = "example" -> (16 :> 112) @@ (17 :> 106) @@ (18 :> 119)
      [] body = "spread" -> (16 :> 1) @@ (500 :> 7) @@ (2040 :> 9)
                               @@ (2047 :> 255)

\* The CRC a descriptor records: over the bytes the buffer holds, or that
\* value with one bit changed
CrcChoices == {"of_buffer", "off_by_one_bit"}

CrcDescriptor(crc_length, body, choice) ==
    LET content == TagBody(TAG_PVD, 256) @@ BodyOf(body)
        held == Min(crc_length, LOGICAL_SECTOR_SIZE - DescriptorTag_size)
        crc == cksum([i \in 1 .. held |-> ByteOf(content, 15 + i)])
        recorded == IF choice = "of_buffer" THEN crc ELSE XorBits(crc, 1, 16)
    IN  Sealed(Put16(8, recorded) @@ Put16(10, crc_length) @@ content)

InitCrc ==
    \E crc_length \in CrcLengths, body \in CrcBodies, choice \in CrcChoices :
       call = [pc |-> "call", fn |-> "validate_descriptor_tag",
               kind |-> body, flip |-> NoFlip, len |-> LOGICAL_SECTOR_SIZE,
               crc_length |-> crc_length, choice |-> choice,
               base |-> CrcDescriptor(crc_length, body, choice),
               content |-> CrcDescriptor(crc_length, body, choice)]

SpecCrcInit ==
    /\ CacheIdle /\ addr = Idle /\ anc = Idle /\ vds = Idle
    /\ InitCrc /\ walk = Idle /\ copy = Idle

SpecCrc == SpecCrcInit /\ [][ValidateDescriptorTag]_vars

\* The bytes of the buffer from offset lo up to (not including) hi
BufferBytes(content, lo, hi) == [i \in 1 .. (hi - lo) |-> ByteOf(content, lo + i - 1)]

\* C14: with descriptor_crc_length > 0 a descriptor is accepted only if the
\* CRC-16/CCITT-FALSE (the CRC of 0x70 0x6A 0x77 is 0x3299) of exactly the
\* descriptor_crc_length bytes after the 16-byte tag equals descriptor_crc;
\* a descriptor_crc_length that reaches past the end of the buffer is never
\* accepted on a CRC of fewer bytes.
C14_CrcValidation ==
    /\ cksum(<<112, 106, 119>>) = 12953
    /\ (call.pc = "done" /\ call.result /\ call.crc_length > 0) =>
           /\ DescriptorTag_size + call.crc_length <= call.len
           /\ cksum(BufferBytes(call.content, DescriptorTag_size,
                                DescriptorTag_size + call.crc_length))
                  = Get16(OneSector(call.content),
                          [pos |-> 256 * LOGICAL_SECTOR_SIZE, len |-> call.len], 8)

\* With descriptor_crc_length inside the buffer the claim's first half holds
C14_WithinBuffer ==
    (call.pc = "done" /\ call.result /\ call.crc_length > 0
        /\ DescriptorTag_size + call.crc_length <= call.len) =>
           cksum(BufferBytes(call.content, DescriptorTag_size,
                             DescriptorTag_size + call.crc_length))
              = Get16(OneSector(call.content),
                      [pos |-> 256 * LOGICAL_SECTOR_SIZE, len |-> call.len], 8)

(***************************************************************************)
(* OSTA compressed Unicode (udf_parser.rs, mod osta)                       *)
(***************************************************************************)
\* A string is the sequence of its Unicode scalar values.  The code points
\* drawn: U+0000, 'A', U+00E9, U+00FF, U+0100, U+4E16, U+FFFF, U+10000,
\* U+1D800 and U+1F600.
CodePoints == {0, 65, 233, 255, 256, 19990, 65535, 65536, 120832, 128512}

MaxStr == 3

Strings == UNION {[1 .. n -> CodePoints] : n \in 0 .. MaxStr}

\* s.chars().any(|c| c as u32 > 0xFF)
needs_16bit(s) == \E i \in 1 .. Len(s) : s[i] > 255

RECURSIVE encode_chars(_, _, _)
encode_chars(s, compression_id, i) ==
    IF i > Len(s) THEN <<>>
    ELSE IF compression_id = 8
         THEN <<s[i] % 256>> \o encode_chars(s, compression_id, i + 1)
         ELSE LET unicode == s[i] % 65536
              IN  <<unicode \div 256, unicode % 256>>
                      \o encode_chars(s, compression_id, i + 1)

encode(s) ==
    LET compression_id == IF needs_16bit(s) THEN 16 ELSE 8
    IN  <<compression_id>> \o encode_chars(s, compression_id, 1)
            \o (IF compression_id = 8 THEN <<0>> ELSE <<0, 0>>)

\* char::from_u32 of a 16-bit value: None for the surrogates
from_u32(unicode) == IF unicode \in 55296 .. 57343 THEN <<>> ELSE <<unicode>>

RECURSIVE decode8(_, _)
decode8(bytes, i) ==
    IF ~(i < Len(bytes)) THEN <<>>
    ELSE IF bytes[i + 1] = 0 THEN <<>>
    ELSE <<bytes[i + 1]>> \o decode8(bytes, i + 1)

RECURSIVE decode16(_, _)
decode16(bytes, i) ==
    IF ~(i + 1 < Len(bytes)) THEN <<>>
    ELSE LET unicode == bytes[i + 1] * 256 + bytes[i + 2]
         IN  IF unicode = 0 THEN <<>>
             ELSE from_u32(unicode) \o decode16(bytes, i + 2)

\* bytes[i] of the source is bytes[i + 1] here (sequences start at 1)
decode(bytes) ==
    IF bytes = <<>> THEN <<>>
    ELSE CASE bytes[1] = 8 -> decode8(bytes, 1)
           [] bytes[1] = 16 -> decode16(bytes, 1)
           [] OTHER -> <<>>

InitOsta ==
    \E s \in Strings : call = [pc |-> "call", fn |-> "osta", s |-> s]

\* osta::decode(&osta::encode(s)), as the tests call the pair
OstaRoundTrip ==
    /\ call.pc = "call" /\ call.fn = "osta"
    /\ call' = [call EXCEPT !.pc = "done"]
                   @@ [encoded |-> encode(call.s),
                       decoded |-> decode(encode(call.s))]
    /\ UNCHANGED <<cacheVars, addr, anc, vds, walk, copy>>

SpecOstaInit ==
    /\ CacheIdle /\ addr = Idle /\ anc = Idle /\ vds = Idle
    /\ InitOsta /\ walk = Idle /\ copy = Idle

SpecOsta == SpecOstaInit /\ [][OstaRoundTrip]_vars

\* C15: decode(encode(s)) = s for every string s, and the encoding's first
\* byte is 8 exactly when every code point of s is <= 0xFF, 16 otherwise.
C15_OstaRoundTrip ==
    call.pc = "done" =>
        /\ call.decoded = call.s
        /\ call.encoded[1] = (IF \A i \in 1 .. Len(call.s) : call.s[i] <= 255
                              THEN 8 ELSE 16)

\* The first-byte half alone, and the round trip of strings without U+0000
\* and without code points above U+FFFF
C15_WithinBmp ==
    call.pc = "done" =>
        /\ call.encoded[1] = (IF \A i \in 1 .. Len(call.s) : call.s[i] <= 255
                              THEN 8 ELSE 16)
        /\ (\A i \in 1 .. Len(call.s) : call.s[i] \in 1 .. 65535) =>
               call.decoded = call.s

(***************************************************************************)
(* Record read/write pairs (udf.rs)                                        *)
(***************************************************************************)
\* &bytes[a..b]
Slice(buf, a, b) == [pos |-> buf.pos + a, len |-> b - a]

\* bytes[a..b].to_vec(), and a fixed array filled by copy_from_slice
GetBytes(img, buf, a, b) == [i \in 1 .. (b - a) |-> BufAt(img, buf, a + i - 1)]

\* bytes[o..o + Len(seq)].copy_from_slice(seq)
PutBytes(o, seq) == [i \in o .. (o + Len(seq) - 1) |-> seq[i - o + 1]]

\* bytes[o] = v
Put8(o, v) == (o :> v)

\* A write into a sub-slice &mut bytes[o..]: the written offsets moved by o
Shifted(o, content) == [i \in {j + o : j \in DOMAIN content} |-> content[i - o]]

\* A u32 whose value is only carried around is kept as its four
\* little-endian bytes (the values go past TLC's 32 bits).
DescriptorTag_write(r) ==
    Put16(0, r.tag_identifier) @@ Put16(2, r.descriptor_version)
        @@ Put8(4, r.tag_checksum) @@ Put8(5, r._reserved)
        @@ Put16(6, r.tag_serial_number) @@ Put16(8, r.descriptor_crc)
        @@ Put16(10, r.descriptor_crc_length) @@ PutBytes(12, r.tag_location)

ExtentAd_write(r) == Put32(0, r.length_bytes) @@ Put32(4, r.location_sector)

LbAddr_read(img, bytes) ==
    [logical_block_number |-> Get32(img, bytes, 0),
     partition_reference_number |-> Get16(img, bytes, 4)]

LbAddr_write(r) ==
    Put32(0, r.logical_block_number) @@ Put16(4, r.partition_reference_number)

LongAd_read(img, bytes) ==
    IF bytes.len # 16 THEN Panicked
    ELSE [extent_length_and_type |-> GetBytes(img, bytes, 0, 4),
          extent_location |-> LbAddr_read(img, Slice(bytes, 4, 10)),
          implementation_use |-> GetBytes(img, bytes, 10, 16)]

LongAd_write(r) ==
    PutBytes(0, r.extent_length_and_type)
        @@ Shifted(4, LbAddr_write(r.extent_location))
        @@ PutBytes(10, r.implementation_use)

ShortAllocationDescriptor_size == 8

ShortAllocationDescriptor_read(img, bytes) ==
    [extent_length_and_type |-> GetBytes(img, bytes, 0, 4),
     extent_location |-> Get32(img, bytes, 4)]

ShortAllocationDescriptor_write(r) ==
    PutBytes(0, r.extent_length_and_type) @@ Put32(4, r.extent_location)

ICBTag_read(img, bytes) ==
    IF bytes.len # 20 THEN Panicked
    ELSE [prior_recorded_number_of_direct_entries |-> Get32(img, bytes, 0),
          strategy_type |-> Get16(img, bytes, 4),
          strategy_parameter |-> GetBytes(img, bytes, 6, 8),
          maximum_number_of_entries |-> Get16(img, bytes, 8),
          reserved |-> BufAt(img, bytes, 10),
          file_type |-> BufAt(img, bytes, 11),
          parent_icb_location |-> LbAddr_read(img, Slice(bytes, 12, 18)),
          flags |-> Get16(img, bytes, 18)]

ICBTag_write(r) ==
    Put32(0, r.prior_recorded_number_of_direct_entries)
        @@ Put16(4, r.strategy_type) @@ PutBytes(6, r.strategy_parameter)
        @@ Put16(8, r.maximum_number_of_entries) @@ Put8(10, r.reserved)
        @@ Put8(11, r.file_type)
        @@ Shifted(12, LbAddr_write(r.parent_icb_location))
        @@ Put16(18, r.flags)

\* bytes[lo..hi].copy_from_slice(src): panics unless the lengths agree and
\* the range lies inside the buffer of length len
copy_from_slice(len, lo, hi, src) ==
    IF hi > len \/ lo > hi \/ hi - lo # Len(src) THEN Panicked
    ELSE Ok(PutBytes(lo, src))

\* Two writes one after the other; a panic or error of the first ends it
Then(first, second) ==
    IF first.kind # "ok" THEN first
    ELSE IF second.kind # "ok" THEN second
    ELSE Ok(second.v @@ first.v)

PartitionMap_write(map, len) ==
    CASE map.type = "Type1" ->
           IF len < 6 THEN Err("UnexpectedEof")
           ELSE Ok(Put8(0, map.header.partition_map_type)
                      @@ Put8(1, map.header.partition_map_length)
                      @@ Put16(2, map.volume_seq_number)
                      @@ Put16(4, map.partition_number))
      [] map.type = "Type2" ->
           IF len < 64 THEN Err("UnexpectedEof")
           ELSE Then(Ok(Put8(0, map.header.partition_map_type)
                           @@ Put8(1, map.header.partition_map_length)),
                     copy_from_slice(len, 2, 64, map.partition_type_identifier))
      [] OTHER ->
           IF len < Len(map.data) THEN Err("UnexpectedEof")
           ELSE copy_from_slice(len, 0, Len(map.data), map.data)

Timestamp_read(img, bytes) ==
    [type_and_timezone |-> Get16(img, bytes, 0),
     year |-> Get16(img, bytes, 2),
     month |-> BufAt(img, bytes, 4), day |-> BufAt(img, bytes, 5),
     hour |-> BufAt(img, bytes, 6), minute |-> BufAt(img, bytes, 7),
     second |-> BufAt(img, bytes, 8), centiseconds |-> BufAt(img, bytes, 9),
     hundreds_of_microseconds |-> BufAt(img, bytes, 10),
     microseconds |-> BufAt(img, bytes, 11)]

Timestamp_write(r) ==
    Put16(0, r.type_and_timezone) @@ Put16(2, r.year)
        @@ Put8(4, r.month) @@ Put8(5, r.day) @@ Put8(6, r.hour)
        @@ Put8(7, r.minute) @@ Put8(8, r.second) @@ Put8(9, r.centiseconds)
        @@ Put8(10, r.hundreds_of_microseconds) @@ Put8(11, r.microseconds)

EntityID_read(img, bytes) ==
    [flags |-> BufAt(img, bytes, 0),
     identifier |-> GetBytes(img, bytes, 1, 24),
     identifier_suffix |-> GetBytes(img, bytes, 24, 32)]

EntityID_write(r) ==
    Put8(0, r.flags) @@ PutBytes(1, r.identifier)
        @@ PutBytes(24, r.identifier_suffix)

FileEntry_get_length(r) ==
    176 + r.length_of_extended_attributes + r.length_of_allocation_descriptors

\* The u64 fields are kept as their eight little-endian bytes.
FileEntry_read(img, bytes) ==
    LET lea == Get32(img, bytes, 168)
        lad == Get32(img, bytes, 172)
    IN  IF 176 + lea + lad > bytes.len THEN Panicked
        ELSE [tag |-> DescriptorTag_read(img, Slice(bytes, 0, 16)),
              icb_tag |-> ICBTag_read(img, Slice(bytes, 16, 36)),
              uid |-> Get32(img, bytes, 36),
              gid |-> Get32(img, bytes, 40),
              permissions |-> Get32(img, bytes, 44),
              file_link_count |-> Get16(img, bytes, 48),
              record_format |-> BufAt(img, bytes, 50),
              record_display_attributes |-> BufAt(img, bytes, 51),
              record_length |-> Get32(img, bytes, 52),
              information_length |-> GetBytes(img, bytes, 56, 64),
              logical_blocks_recorded |-> GetBytes(img, bytes, 64, 72),
              access_time |-> Timestamp_read(img, Slice(bytes, 72, 84)),
              modification_time |-> Timestamp_read(img, Slice(bytes, 84, 96)),
              attribute_time |-> Timestamp_read(img, Slice(bytes, 96, 108)),
              checkpoint |-> Get32(img, bytes, 108),
              extended_attribute_icb |-> LongAd_read(img, Slice(bytes, 112, 128)),
              implementation_identifier |->
                  EntityID_read(img, Slice(bytes, 128, 160)),
              unique_id |-> GetBytes(img, bytes, 160, 168),
              length_of_extended_attributes |-> lea,
              length_of_allocation_descriptors |-> lad,
              extended_attributes |-> GetBytes(img, bytes, 176, 176 + lea),
              allocation_descriptors |->
                  GetBytes(img, bytes, 176 + lea, 176 + lea + lad)]

FileEntry_write(r, len) ==
    LET lea == r.length_of_extended_attributes
        fixed == Shifted(0, DescriptorTag_write(r.tag))
                   @@ Shifted(16, ICBTag_write(r.icb_tag))
                   @@ Put32(36, r.uid) @@ Put32(40, r.gid)
                   @@ Put32(44, r.permissions) @@ Put16(48, r.file_link_count)
                   @@ Put8(50, r.record_format)
                   @@ Put8(51, r.record_display_attributes)
                   @@ Put32(52, r.record_length)
                   @@ PutBytes(56, r.information_length)
                   @@ PutBytes(64, r.logical_blocks_recorded)
                   @@ Shifted(72, Timestamp_write(r.access_time))
                   @@ Shifted(84, Timestamp_write(r.modification_time))
                   @@ Shifted(96, Timestamp_write(r.attribute_time))
                   @@ Put32(108, r.checkpoint)
                   @@ Shifted(112, LongAd_write(r.extended_attribute_icb))
                   @@ Shifted(128, EntityID_write(r.implementation_identifier))
                   @@ PutBytes(160, r.unique_id)
                   @@ Put32(168, lea)
                   @@ Put32(172, r.length_of_allocation_descriptors)
    IN  IF len < 176 THEN Panicked
        ELSE Then(Then(Ok(fixed),
                       copy_from_slice(len, 176, 176 + lea,
                                       r.extended_attributes)),
                  copy_from_slice(len, 176 + lea, len,
                                  r.allocation_descriptors))

FileIdentifierDescriptor_size(r) ==
    38 + r.length_of_implementation_use + r.length_of_file_identifier

FileIdentifierDescriptor_read(img, bytes) ==
    LET impl_use_len == Get16(img, bytes, 36)
        file_id_len == BufAt(img, bytes, 19)
    IN  IF 38 + impl_use_len + file_id_len > bytes.len THEN Panicked
        ELSE [tag |-> DescriptorTag_read(img, Slice(bytes, 0, 16)),
              file_version_number |-> Get16(img, bytes, 16),
              file_characteristics |-> BufAt(img, bytes, 18),
              length_of_file_identifier |-> file_id_len,
              icb |-> LongAd_read(img, Slice(bytes, 20, 36)),
              length_of_implementation_use |-> impl_use_len,
              implementation_use |-> GetBytes(img, bytes, 38, 38 + impl_use_len),
              file_identifier |->
                  GetBytes(img, bytes, 38 + impl_use_len,
                           38 + impl_use_len + file_id_len)]

FileIdentifierDescriptor_write(r, len) ==
    LET liu == r.length_of_implementation_use
        lfi == r.length_of_file_identifier
        fixed == Shifted(0, DescriptorTag_write(r.tag))
                   @@ Put16(16, r.file_version_number)
                   @@ Put8(18, r.file_characteristics) @@ Put8(19, lfi)
                   @@ Shifted(20, LongAd_write(r.icb))
                   @@ Put16(36, liu)
    IN  IF len < 38 THEN Panicked
        ELSE Then(Then(Ok(fixed),
                       copy_from_slice(len, 38, 38 + liu, r.implementation_use)),
                  copy_from_slice(len, 38 + liu, 38 + liu + lfi,
                                  r.file_identifier))

\* Field values the records are drawn from
U16Values == {0, 258}

U32Values == {0, 16909060}

U32Bytes == {<<0, 0, 0, 0>>, <<0, 8, 0, 64>>, <<255, 255, 255, 255>>}

Zeros(n) == [i \in 1 .. n |-> 0]

Counting(n) == [i \in 1 .. n |-> i]

DescriptorTags ==
    [tag_identifier : {257, 261}, descriptor_version : {2},
     tag_checksum : {0, 200}, _reserved : {0, 7}, tag_serial_number : {513},
     descriptor_crc : {4660}, descriptor_crc_length : {0, 496},
     tag_location : {<<0, 1, 0, 0>>, <<255, 255, 255, 255>>}]

ExtentAds == [length_bytes : U32Values, location_sector : U32Values]

LbAddrs ==
    [logical_block_number : U32Values, partition_reference_number : U16Values]

LongAds ==
    [extent_length_and_type : U32Bytes, extent_location : LbAddrs,
     implementation_use : {Zeros(6), Counting(6)}]

ShortAllocationDescriptors ==
    [extent_length_and_type : U32Bytes, extent_location : U32Values]

ICBTags ==
    [prior_recorded_number_of_direct_entries : U32Values, strategy_type : {4},
     strategy_parameter : {<<0, 0>>, <<1, 2>>},
     maximum_number_of_entries : {1}, reserved : {0, 9}, file_type : {4, 5},
     parent_icb_location : {[logical_block_number |-> 16909060,
                             partition_reference_number |-> 258]},
     flags : {0, 515}]

\* Partition maps as PartitionMap::read produces them: Type1 with length 6,
\* Type2 with length 64, any other type with data of the recorded length
PartitionMaps ==
    [type : {"Type1"},
     header : {[partition_map_type |-> 1, partition_map_length |-> 6]},
     volume_seq_number : {1}, partition_number : U16Values]
    \cup
    [type : {"Type2"},
     header : {[partition_map_type |-> 2, partition_map_length |-> 64]},
     reserved1 : {<<0, 0>>, <<5, 6>>},
     partition_type_identifier : {Zeros(32), Counting(32)}]
    \cup
    {[type |-> "Other",
      header |-> [partition_map_type |-> d[1], partition_map_length |-> d[2]],
      data |-> d] : d \in {<<0, 2>>, <<3, 4, 9, 9>>,
                           <<7, 8, 1, 2, 3, 4, 5, 6>>}}

AnyTimestamp ==
    [type_and_timezone |-> 4096, year |-> 2024, month |-> 2, day |-> 29,
     hour |-> 23, minute |-> 59, second |-> 58, centiseconds |-> 99,
     hundreds_of_microseconds |-> 98, microseconds |-> 97]

AnyEntityID ==
    [flags |-> 0, identifier |-> Counting(23), identifier_suffix |-> Counting(8)]

AnyTag == CHOOSE t \in DescriptorTags : t._reserved = 7 /\ t.tag_checksum = 200

AnyICBTag == CHOOSE t \in ICBTags : t.reserved = 9 /\ t.flags = 515

AnyLongAd == CHOOSE a \in LongAds : a.implementation_use = Counting(6)

FileEntries ==
    {[tag |-> AnyTag, icb_tag |-> AnyICBTag, uid |-> uid, gid |-> 16909060,
      permissions |-> 258, file_link_count |-> 1, record_format |-> 3,
      record_display_attributes |-> 4, record_length |-> 2048,
      information_length |-> Counting(8),
      logical_blocks_recorded |-> <<1, 0, 0, 0, 0, 0, 0, 0>>,
      access_time |-> AnyTimestamp, modification_time |-> AnyTimestamp,
      attribute_time |-> [AnyTimestamp EXCEPT !.year = 1999],
      checkpoint |-> 1, extended_attribute_icb |-> AnyLongAd,
      implementation_identifier |-> AnyEntityID, unique_id |-> Zeros(8),
      length_of_extended_attributes |-> Len(ea),
      length_of_allocation_descriptors |-> Len(ad),
      extended_attributes |-> ea, allocation_descriptors |-> ad] :
        uid \in U32Values, ea \in {<<>>, <<9, 8, 7, 6>>},
        ad \in {<<>>, Counting(8), Counting(16)}}

FileIdentifierDescriptors ==
    {[tag |-> AnyTag, file_version_number |-> 1,
      file_characteristics |-> fc, length_of_file_identifier |-> Len(fi),
      icb |-> AnyLongAd, length_of_implementation_use |-> Len(iu),
      implementation_use |-> iu, file_identifier |-> fi] :
        fc \in {0, 2, 10}, iu \in {<<>>, <<1, 2, 3>>},
        fi \in {<<>>, <<8, 65, 0>>, <<8, 86, 73, 68, 69, 79, 95, 84, 83>>}}

RecordTypes ==
    {"DescriptorTag", "ExtentAd", "LbAddr", "LongAd",
     "ShortAllocationDescriptor", "ICBTag", "FileEntry",
     "FileIdentifierDescriptor", "PartitionMap"}

ValuesOf(type) ==
    CASE type = "DescriptorTag" -> DescriptorTags
      [] type = "ExtentAd" -> ExtentAds
      [] type = "LbAddr" -> LbAddrs
      [] type = "LongAd" -> LongAds
      [] type = "ShortAllocationDescriptor" -> ShortAllocationDescriptors
      [] type = "ICBTag" -> ICBTags
      [] type = "FileEntry" -> FileEntries
      [] type = "FileIdentifierDescriptor" -> FileIdentifierDescriptors
      [] type = "PartitionMap" -> PartitionMaps

\* The encoded size of a value: size() / get_length()
EncodedSize(type, r) ==
    CASE type = "DescriptorTag" -> DescriptorTag_size
      [] type = "ExtentAd" -> 8
      [] type = "LbAddr" -> 6
      [] type = "LongAd" -> 16
      [] type = "ShortAllocationDescriptor" -> ShortAllocationDescriptor_size
      [] type = "ICBTag" -> 20
      [] type = "FileEntry" -> FileEntry_get_length(r)
      [] type = "FileIdentifierDescriptor" -> FileIdentifierDescriptor_size(r)
      [] type = "PartitionMap" -> get_length(r)

\* r.write(&mut bytes) on a zeroed buffer of len bytes
WriteRecord(type, r, len) ==
    CASE type = "DescriptorTag" -> Ok(DescriptorTag_write(r))
      [] type = "ExtentAd" -> Ok(ExtentAd_write(r))
      [] type = "LbAddr" -> Ok(LbAddr_write(r))
      [] type = "LongAd" -> Ok(LongAd_write(r))
      [] type = "ShortAllocationDescriptor" ->
           Ok(ShortAllocationDescriptor_write(r))
      [] type = "ICBTag" -> Ok(ICBTag_write(r))
      [] type = "FileEntry" -> FileEntry_write(r, len)
      [] type = "FileIdentifierDescriptor" ->
           FileIdentifierDescriptor_write(r, len)
      [] type = "PartitionMap" -> PartitionMap_write(r, len)

Wrapped(v) == IF v = Panicked THEN Panicked ELSE Ok(v)

\* R::read(&bytes) of a buffer of len bytes holding content
ReadRecord(type, content, len) ==
    LET img == OneSector(content)
        bytes == [pos |-> 256 * LOGICAL_SECTOR_SIZE, len |-> len]
    IN  CASE type = "DescriptorTag" -> Ok(DescriptorTag_read(img, bytes))
          [] type = "ExtentAd" -> Ok(ExtentAd_read(img, bytes, 0))
          [] type = "LbAddr" -> Ok(LbAddr_read(img, bytes))
          [] type = "LongAd" -> Wrapped(LongAd_read(img, bytes))
          [] type = "ShortAllocationDescriptor" ->
               Ok(ShortAllocationDescriptor_read(img, bytes))
          [] type = "ICBTag" -> Wrapped(ICBTag_read(img, bytes))
          [] type = "FileEntry" -> Wrapped(FileEntry_read(img, bytes))
          [] type = "FileIdentifierDescriptor" ->
               Wrapped(FileIdentifierDescriptor_read(img, bytes))
          [] type = "PartitionMap" -> PartitionMap_read(img, bytes)

InitRecords ==
    \E type \in RecordTypes : \E r \in ValuesOf(type) :
       call = [pc |-> "call", fn |-> "round_trip", type |-> type, r |-> r,
               len |-> EncodedSize(type, r)]

\* A value written into a zeroed buffer of its encoded size and read back
WriteThenRead ==
    /\ call.pc = "call" /\ call.fn = "round_trip"
    /\ call' = [call EXCEPT !.pc = "done"]
                   @@ [written |-> WriteRecord(call.type, call.r, call.len),
                       back |-> IF WriteRecord(call.type, call.r, call.len).kind
                                      = "ok"
                                THEN ReadRecord(call.type,
                                         WriteRecord(call.type, call.r,
                                                     call.len).v, call.len)
                                ELSE WriteRecord(call.type, call.r, call.len)]
    /\ UNCHANGED <<cacheVars, addr, anc, vds, walk, copy>>

SpecRecordsInit ==
    /\ CacheIdle /\ addr = Idle /\ anc = Idle /\ vds = Idle
    /\ InitRecords /\ walk = Idle /\ copy = Idle

SpecRecords == SpecRecordsInit /\ [][WriteThenRead]_vars

\* C16: for every record type with a read/write pair and every value r,
\* writing r into a buffer of its encoded size and reading it back yields r;
\* unknown PartitionMap variants are preserved byte for byte.
C16_RecordRoundTrip ==
    call.pc = "done" => call.back = Ok(call.r)

\* The same with the Type 2 partition maps left out
C16_ExceptType2 ==
    (call.pc = "done" /\ ~(call.type = "PartitionMap" /\ call.r.type = "Type2"))
        => call.back = Ok(call.r)

(***************************************************************************)
(* Directory records (udf_parser.rs, parse_file_identifiers)               *)
(***************************************************************************)
TAG_FID == 257

TAG_TERMINAL_ENTRY == 260

\* size + 3 & !3
align_4_byte_Unaligned(size) == size

align_4_byte(size) == (size + 3) - ((size + 3) % 4)

RECURSIVE parse_loop(_, _, _)
parse_loop(img, buf, entries) ==
    IF ~(buf.len > DescriptorTag_size) THEN Ok(entries)
    ELSE LET tag == DescriptorTag_read(img, buf)
         IN  IF tag.tag_identifier = 0 THEN Ok(entries)
             ELSE IF tag.tag_identifier = TAG_FID
             THEN IF FileIdentifierDescriptor_read(img, buf) = Panicked
                  THEN Panicked
                  ELSE IF align_4_byte(FileIdentifierDescriptor_size(
                              FileIdentifierDescriptor_read(img, buf))) > buf.len
                  THEN Panicked
                  ELSE parse_loop(img,
                           Slice(buf,
                                 align_4_byte(FileIdentifierDescriptor_size(
                                     FileIdentifierDescriptor_read(img, buf))),
                                 buf.len),
                           Append(entries,
                                  FileIdentifierDescriptor_read(img, buf)))
             ELSE IF tag.tag_identifier = TAG_TERMINAL_ENTRY THEN Ok(entries)
             ELSE Err("InvalidDescriptorTag")

parse_file_identifiers(img, buf) == parse_loop(img, buf, <<>>)

\* DynamicDstring::to_string of each entry's file_identifier
Identifiers(entries) == [i \in 1 .. Len(entries) |-> decode(entries[i].file_identifier)]

\* The records a directory buffer is put together from
FidTag == [tag_identifier |-> TAG_FID, descriptor_version |-> 2,
           tag_checksum |-> 200, _reserved |-> 0, tag_serial_number |-> 0,
           descriptor_crc |-> 25159, descriptor_crc_length |-> 24,
           tag_location |-> <<3, 0, 0, 0>>]

FidIcb == [extent_length_and_type |-> <<0, 8, 0, 0>>,
           extent_location |-> [logical_block_number |-> 2,
                                partition_reference_number |-> 0],
           implementation_use |-> Zeros(6)]

Fid(file_characteristics, iu, fi) ==
    [tag |-> FidTag, file_version_number |-> 1,
     file_characteristics |-> file_characteristics,
     length_of_file_identifier |-> Len(fi), icb |-> FidIcb,
     length_of_implementation_use |-> Len(iu),
     implementation_use |-> iu, file_identifier |-> fi]

FidKinds == {"parent", "audio", "with_iu", "one"}

FidOf(kind) ==
    CASE kind = "parent" -> Fid(10, <<>>, <<>>)
      [] kind = "audio" -> Fid(2, <<>>, <<8, 65, 85, 68, 73, 79, 95, 84, 83>>)
      [] kind = "with_iu" -> Fid(0, <<1, 2, 3>>, <<8, 65, 0>>)
      [] kind = "one" -> Fid(0, <<>>, <<8, 65, 66>>)

\* Whole records, then records cut short: "cut" ends inside the identifier,
\* "unpadded" lacks the padding to a multiple of 4
RecordKinds ==
    FidKinds \cup {"terminal", "zero", "other", "tail", "cut", "unpadded"}

RecordLength(kind) ==
    CASE kind \in FidKinds ->
           4 * ((FileIdentifierDescriptor_size(FidOf(kind)) + 3) \div 4)
      [] kind = "terminal" -> 36
      [] kind = "zero" -> 20
      [] kind = "other" -> 40
      [] kind = "tail" -> 12
      [] kind = "cut" -> 40
      [] kind = "unpadded" -> 47

RecordContent(kind) ==
    CASE kind \in FidKinds ->
           FileIdentifierDescriptor_write(FidOf(kind), RecordLength(kind)).v
      [] kind = "terminal" -> TagBody(TAG_TERMINAL_ENTRY, 3)
      [] kind = "zero" -> ZeroSector
      [] kind = "other" -> TagBody(261, 3)
      [] kind = "tail" -> PutBytes(0, [i \in 1 .. 12 |-> 255])
      [] kind = "cut" ->
           [o \in 0 .. 39 |->
               ByteOf(FileIdentifierDescriptor_write(FidOf("audio"), 48).v, o)]
      [] kind = "unpadded" -> FileIdentifierDescriptor_write(FidOf("audio"), 48).v

MaxRecords == 3

RECURSIVE BufferLength(_)
BufferLength(kinds) ==
    IF kinds = <<>> THEN 0
    ELSE RecordLength(Head(kinds)) + BufferLength(Tail(kinds))

RECURSIVE BufferContent(_)
BufferContent(kinds) ==
    IF kinds = <<>> THEN ZeroSector
    ELSE RecordContent(Head(kinds))
            @@ Shifted(RecordLength(Head(kinds)), BufferContent(Tail(kinds)))

\* The bytes of test_parse_file_identifiers
Fixture ==
    <<1, 1, 2, 0, 200, 0, 0, 0, 71, 98, 24, 0, 3, 0, 0, 0, 1, 0, 10, 0, 0, 8,
      0, 0, 2, 0, 0, 0, 0, 0, 0, 0, 0, 0, 0, 0, 0, 0, 0, 0, 1, 1, 2, 0, 251,
      0, 0, 0, 96, 116, 32, 0, 3, 0, 0, 0, 1, 0, 2, 9, 0, 8, 0, 0, 4, 0, 0, 0,
      0, 0, 0, 0, 0, 0, 0, 0, 0, 0, 8, 65, 85, 68, 73, 79, 95, 84, 83, 0, 1,
      1, 2, 0, 217, 0, 0, 0, 211, 223, 32, 0, 3, 0, 0, 0, 1, 0, 2, 9, 0, 8, 0,
      0, 6, 0, 0, 0, 0, 0, 0, 0, 0, 0, 0, 0, 0, 0, 8, 86, 73, 68, 69, 79, 95,
      84, 83, 0>>

InitDirectory ==
    \/ \E kinds \in UNION {[1 .. n -> RecordKinds] : n \in 0 .. MaxRecords} :
          call = [pc |-> "call", fn |-> "parse_file_identifiers",
                  kinds |-> kinds, content |-> BufferContent(kinds),
                  len |-> BufferLength(kinds)]
    \/ call = [pc |-> "call", fn |-> "parse_file_identifiers",
               kinds |-> <<"fixture">>, content |-> PutBytes(0, Fixture),
               len |-> Len(Fixture)]

ParseFileIdentifiers ==
    /\ call.pc = "call" /\ call.fn = "parse_file_identifiers"
    /\ call' = [call EXCEPT !.pc = "done"]
                   @@ [result |->
                          parse_file_identifiers(OneSector(call.content),
                              [pos |-> 256 * LOGICAL_SECTOR_SIZE,
                               len |-> call.len])]
    /\ UNCHANGED <<cacheVars, addr, anc, vds, walk, copy>>

SpecDirectoryInit ==
    /\ CacheIdle /\ addr = Idle /\ anc = Idle /\ vds = Idle
    /\ InitDirectory /\ walk = Idle /\ copy = Idle

SpecDirectory == SpecDirectoryInit /\ [][ParseFileIdentifiers]_vars

\* What the records of a buffer are to yield: the leading descriptors in
\* order, up to a blank or terminal tag or the end of the buffer (a rest of
\* 16 bytes or fewer); any other tag is an error.
RECURSIVE Expected(_, _)
Expected(kinds, entries) ==
    IF kinds = <<>> THEN Ok(entries)
    ELSE CASE Head(kinds) \in FidKinds ->
                Expected(Tail(kinds), Append(entries, FidOf(Head(kinds))))
           [] Head(kinds) \in {"terminal", "zero"} -> Ok(entries)
           [] Head(kinds) = "tail" ->
                IF BufferLength(kinds) <= DescriptorTag_size THEN Ok(entries)
                ELSE Err("InvalidDescriptorTag")
           [] OTHER -> Err("InvalidDescriptorTag")

\* Every record up to the first that ends the parse lies whole in the buffer
RECURSIVE WholeRecords(_)
WholeRecords(kinds) ==
    \/ kinds = <<>>
    \/ Head(kinds) \in {"terminal", "zero", "other", "tail"}
    \/ Head(kinds) \in FidKinds /\ WholeRecords(Tail(kinds))

\* C17: parse_file_identifiers returns the descriptors of the buffer in
\* on-disk order, advancing by (38 + L_IU + L_FI + 3) & ~3 after each; it
\* stops without error at tag_identifier 0 or 260 or when 16 or fewer bytes
\* remain, and returns Err(InvalidDescriptorTag) on any other tag; the
\* three-record fixture yields "", "AUDIO_TS", "VIDEO_TS".
C17_DirectoryParsing ==
    call.pc = "done" =>
        IF call.kinds = <<"fixture">>
        THEN /\ call.result.kind = "ok"
             /\ Identifiers(call.result.v)
                   = << <<>>, <<65, 85, 68, 73, 79, 95, 84, 83>>,
                        <<86, 73, 68, 69, 79, 95, 84, 83>> >>
        ELSE WholeRecords(call.kinds) =>
                call.result = Expected(call.kinds, <<>>)

\* Descriptors of all four sizes modulo 4 parsed one after the other
C17_Witness ==
    /\ call.pc = "done"
    /\ call.kinds = <<"audio", "one", "parent">>
    /\ call.result.kind = "ok" /\ Len(call.result.v) = 3

\* Outside the claim's cases: a buffer that ends inside its last descriptor,
\* or before that descriptor's padding, ends the call with a panic
C17_CutRecordPanics ==
    (call.pc = "done" /\ call.kinds # <<>>
        /\ Last(call.kinds) \in {"cut", "unpadded"}
        /\ \A i \in 1 .. (Len(call.kinds) - 1) : call.kinds[i] \in FidKinds)
        => call.result = Panicked

(***************************************************************************)
(* Directory traversal (main.rs, run_on_directory)                         *)
(***************************************************************************)
FILE_CHARACTERISTIC_DIRECTORY == 2

FILE_CHARACTERISTIC_PARENT == 8

\* file_characteristics & bit != 0, bit a power of two
HasBit(file_characteristics, bit) == (file_characteristics \div bit) % 2 = 1

is_parent_Never(fid) == FALSE

is_parent(fid) == HasBit(fid.file_characteristics, FILE_CHARACTERISTIC_PARENT)

is_directory(fid) ==
    HasBit(fid.file_characteristics, FILE_CHARACTERISTIC_DIRECTORY)

\* A directory entry whose icb names logical block target
FidTo(file_characteristics, target, fi) ==
    [Fid(file_characteristics, <<>>, fi) EXCEPT
        !.icb.extent_location.logical_block_number = target]

PaddedSize(fid) == 4 * ((FileIdentifierDescriptor_size(fid) + 3) \div 4)

\* The data of a directory: its descriptors one after the other, padded
RECURSIVE FidsLength(_)
FidsLength(fids) ==
    IF fids = <<>> THEN 0
    ELSE PaddedSize(Head(fids)) + FidsLength(Tail(fids))

RECURSIVE FidsContent(_)
FidsContent(fids) ==
    IF fids = <<>> THEN ZeroSector
    ELSE FileIdentifierDescriptor_write(Head(fids), PaddedSize(Head(fids))).v
            @@ Shifted(PaddedSize(Head(fids)), FidsContent(Tail(fids)))

\* Directory trees: directory 0 is the root, directory d > 0 lies in
\* directory parent[d] < d; the directories of files hold one file each.
\* Every directory starts with its parent entry (the root's names the root
\* itself), whose file_characteristics are parent_fc.
MaxDirs == 4

MaxDepth == 6

FileBlock == 100

Trees ==
    UNION {[ndirs : {n},
            parent : {f \in [0 .. (n - 1) -> 0 .. (n - 1)] :
                         /\ f[0] = 0
                         /\ \A d \in 1 .. (n - 1) : f[d] < d},
            parent_fc : {8, 10, 11},
            files : SUBSET (0 .. (n - 1))] : n \in 1 .. MaxDirs}

RECURSIVE SeqOfSet(_)
SeqOfSet(set) ==
    IF set = {} THEN <<>>
    ELSE LET least == CHOOSE x \in set : \A y \in set : x <= y
         IN  <<least>> \o SeqOfSet(set \ {least})

Children(tree, d) == {c \in 1 .. (tree.ndirs - 1) : tree.parent[c] = d}

EntriesOf(tree, d) ==
    <<FidTo(tree.parent_fc, tree.parent[d], <<>>)>>
       \o [i \in 1 .. Cardinality(Children(tree, d)) |->
              FidTo(FILE_CHARACTERISTIC_DIRECTORY,
                    SeqOfSet(Children(tree, d))[i],
                    <<8, 65 + SeqOfSet(Children(tree, d))[i]>>)]
       \o (IF d \in tree.files
           THEN <<FidTo(0, FileBlock + d, <<8, 70>>)>> ELSE <<>>)

\* read_file_entries and read_directory_contents of the directory whose ICB
\* is at block icb, all reads succeeding: its data parsed
read_directory(tree, icb) ==
    parse_file_identifiers(OneSector(FidsContent(EntriesOf(tree, icb))),
        [pos |-> 256 * LOGICAL_SECTOR_SIZE,
         len |-> FidsLength(EntriesOf(tree, icb))])

\* The image: a tree and, for each directory, what reading it returns
InitWalk ==
    \E tree \in Trees :
       walk = [pc |-> "call", tree |-> tree,
               dirs |-> [d \in 0 .. (tree.ndirs - 1) |->
                            read_directory(tree, d)],
               icb |-> 0, stack |-> <<>>,
               visited |-> <<>>, copied |-> <<>>, skipped |-> <<>>,
               descended |-> <<>>]

TopFrame == walk.stack[Len(walk.stack)]

CurrentFid == TopFrame.fids[TopFrame.i]

Advance(stack) == [stack EXCEPT ![Len(stack)].i = @ + 1]

\* run_on_directory up to its loop: the directory is read
EnterDirectory ==
    /\ walk.pc = "call"
    /\ IF walk.dirs[walk.icb].kind = "ok"
       THEN walk' = [walk EXCEPT
                        !.pc = "loop",
                        !.visited = Append(@, walk.icb),
                        !.stack = Append(@, [icb |-> walk.icb, i |-> 1,
                                             fids |-> walk.dirs[walk.icb].v])]
       ELSE walk' = [walk EXCEPT !.pc = "done", !.stack = <<>>]
                       @@ [result |-> walk.dirs[walk.icb]]
    /\ UNCHANGED <<cacheVars, addr, anc, vds, call, copy>>

\* One turn of the loop on an entry with the PARENT bit: continue
SkipParent ==
    /\ walk.pc = "loop" /\ TopFrame.i <= Len(TopFrame.fids)
    /\ is_parent(CurrentFid)
    /\ walk' = [walk EXCEPT !.stack = Advance(@),
                            !.skipped = Append(@, CurrentFid)]
    /\ UNCHANGED <<cacheVars, addr, anc, vds, call, copy>>

\* One turn of the loop on a directory entry: the recursive call
Descend ==
    /\ walk.pc = "loop" /\ TopFrame.i <= Len(TopFrame.fids)
    /\ ~is_parent(CurrentFid) /\ is_directory(CurrentFid)
    /\ Len(walk.stack) < MaxDepth
    /\ walk' = [walk EXCEPT
                    !.pc = "call",
                    !.icb = CurrentFid.icb.extent_location.logical_block_number,
                    !.descended = Append(@, CurrentFid)]
    /\ UNCHANGED <<cacheVars, addr, anc, vds, call, copy>>

\* One turn of the loop on any other entry: read_file
CopyFile ==
    /\ walk.pc = "loop" /\ TopFrame.i <= Len(TopFrame.fids)
    /\ ~is_parent(CurrentFid) /\ ~is_directory(CurrentFid)
    /\ walk' = [walk EXCEPT !.stack = Advance(@),
                            !.copied = Append(@, CurrentFid)]
    /\ UNCHANGED <<cacheVars, addr, anc, vds, call, copy>>

\* The loop is over: Ok(()) to the caller, which goes on with its next entry
Return ==
    /\ walk.pc = "loop" /\ TopFrame.i > Len(TopFrame.fids)
    /\ IF Len(walk.stack) = 1
       THEN walk' = [walk EXCEPT !.pc = "done", !.stack = <<>>]
                       @@ [result |-> Ok(<<>>)]
       ELSE walk' = [walk EXCEPT !.stack = Advance(Front(@))]
    /\ UNCHANGED <<cacheVars, addr, anc, vds, call, copy>>

WalkNext == EnterDirectory \/ SkipParent \/ Descend \/ CopyFile \/ Return

SpecWalkInit ==
    /\ CacheIdle /\ addr = Idle /\ anc = Idle /\ vds = Idle
    /\ call = Idle /\ InitWalk /\ copy = Idle

\* One thread runs the traversal to its end
SpecWalk == SpecWalkInit /\ [][WalkNext]_vars /\ WF_vars(WalkNext)

Occurrences(seq, x) == Cardinality({i \in 1 .. Len(seq) : seq[i] = x})

\* No entry recursed into or copied has the PARENT bit
NoParentFollowed ==
    /\ \A i \in 1 .. Len(walk.descended) :
          ~HasBit(walk.descended[i].file_characteristics, 8)
    /\ \A i \in 1 .. Len(walk.copied) :
          ~HasBit(walk.copied[i].file_characteristics, 8)

\* The traversal has returned Ok with every directory visited exactly once
VisitedOnce ==
    /\ walk.pc = "done" /\ walk.result = Ok(<<>>)
    /\ \A d \in 0 .. (walk.tree.ndirs - 1) : Occurrences(walk.visited, d) = 1
    /\ Len(walk.visited) = walk.tree.ndirs

\* C18: run_on_directory never recurses into and never copies an entry with
\* the PARENT bit, also when the DIRECTORY bit is set; on a finite tree whose
\* reads succeed the traversal visits every directory exactly once and
\* terminates.
C18_TraversalTermination == [](NoParentFollowed) /\ <>(VisitedOnce)

\* A traversal of four directories has ended, having passed over parent
\* entries that carry the DIRECTORY bit
C18_Witness ==
    /\ walk.pc = "done" /\ walk.tree.ndirs = 4 /\ walk.tree.parent_fc = 10
    /\ Len(walk.skipped) = 4 /\ Len(walk.visited) = 4

(***************************************************************************)
(* Copying a file (main.rs, read_file)                                     *)
(***************************************************************************)
\* extent_length_and_type & 0x3FFFFFFF and extent_length_and_type >> 30, on
\* the four little-endian bytes of the field
extent_length_bytes(ad) ==
    ad.extent_length_and_type[1] + 256 * ad.extent_length_and_type[2]
        + 65536 * ad.extent_length_and_type[3]
        + 16777216 * (ad.extent_length_and_type[4] % 64)

extent_type(ad) == ad.extent_length_and_type[4] \div 64

\* allocation_descriptors.chunks_exact(8).map(read).collect()
read_short_allocation_descriptors_Reversed(allocation_descriptors) ==
    [i \in 1 .. (Len(allocation_descriptors) \div ShortAllocationDescriptor_size) |->
        ShortAllocationDescriptor_read(
            OneSector(PutBytes(0, allocation_descriptors)),
            [pos |-> 256 * LOGICAL_SECTOR_SIZE
                       + (Len(allocation_descriptors) \div ShortAllocationDescriptor_size - i)
                            * ShortAllocationDescriptor_size,
             len |-> ShortAllocationDescriptor_size])]

read_short_allocation_descriptors(allocation_descriptors) ==
    [i \in 1 .. (Len(allocation_descriptors) \div ShortAllocationDescriptor_size) |->
        ShortAllocationDescriptor_read(
            OneSector(PutBytes(0, allocation_descriptors)),
            [pos |-> 256 * LOGICAL_SECTOR_SIZE
                       + (i - 1) * ShortAllocationDescriptor_size,
             len |-> ShortAllocationDescriptor_size])]

short_ad_to_pos_in_partition(logical_block_size, short_ad) ==
    short_ad.extent_location * logical_block_size

\* vec![0u8; 1024*1024]
CopyBufferLen == 1048576

pos_this_iteration_Fixed(pos_in_partition, offset) == pos_in_partition

pos_this_iteration(pos_in_partition, offset) == pos_in_partition + offset

len_this_iteration(ad, offset) == Min(extent_length_bytes(ad) - offset, CopyBufferLen)

\* A short_ad as recorded: type in the two top bits of the length word
ShortAd(type, length, location) ==
    [extent_length_and_type |->
         <<length % 256, (length \div 256) % 256, (length \div 65536) % 256,
           (length \div 16777216) + 64 * type>>,
     extent_location |-> location]

AdChoices ==
    {ShortAd(0, 2048, 3), ShortAd(0, 1048577, 10), ShortAd(0, 2500000, 600),
     ShortAd(1, 2048, 5), ShortAd(2, 4096, 0), ShortAd(0, 0, 0)}

MaxAds == 2

\* A file's ICB holds one File Entry, or two
FileEntryCounts == {1, 2}

RECURSIVE AdsBytes(_)
AdsBytes(ads) ==
    IF ads = <<>> THEN <<>>
    ELSE [i \in 1 .. ShortAllocationDescriptor_size |->
             ShortAllocationDescriptor_write(Head(ads))[i - 1]]
            \o AdsBytes(Tail(ads))

\* The allocation_descriptors fields a File Entry may hold; one of them has
\* four bytes over after its descriptors
AllocationDescriptorFields ==
    {AdsBytes(ads) : ads \in UNION {[1 .. n -> AdChoices] : n \in 0 .. MaxAds}}
        \cup {AdsBytes(<<ShortAd(0, 2048, 3)>>) \o <<1, 2, 3, 4>>}

\* The file's File Entries as read_file_entries returned them, each as its
\* allocation_descriptors
InitCopy ==
    \E file_entries \in UNION {[1 .. n -> AllocationDescriptorFields] :
                                 n \in FileEntryCounts} :
       copy = [pc |-> "call", file_entries |-> file_entries,
               logical_block_size |-> LOGICAL_SECTOR_SIZE,
               fe |-> 0, ad |-> 0, offset |-> 0,
               reads |-> <<>>, output |-> <<>>]

CurrentAds == read_short_allocation_descriptors(copy.file_entries[copy.fe])

CurrentAd == CurrentAds[copy.ad]

\* read_file up to its loops: the File Entries are read, the output created
OpenFile ==
    /\ copy.pc = "call"
    /\ copy' = [copy EXCEPT !.pc = "loop", !.fe = 1, !.ad = 1, !.offset = 0]
    /\ UNCHANGED <<cacheVars, addr, anc, vds, call, walk>>

\* One turn of the while loop: a read from the partition and a write of
\* what was read
CopyChunk ==
    /\ copy.pc = "loop" /\ copy.fe <= Len(copy.file_entries)
    /\ copy.ad <= Len(CurrentAds)
    /\ copy.offset < extent_length_bytes(CurrentAd)
    /\ copy' = [copy EXCEPT
                    !.reads = Append(@,
                        [fe |-> copy.fe, ad |-> copy.ad,
                         pos |-> pos_this_iteration(
                                    short_ad_to_pos_in_partition(
                                        copy.logical_block_size, CurrentAd),
                                    copy.offset),
                         len |-> len_this_iteration(CurrentAd, copy.offset)]),
                    !.output = Append(@,
                        [fe |-> copy.fe, ad |-> copy.ad, from |-> "partition",
                         pos |-> pos_this_iteration(
                                    short_ad_to_pos_in_partition(
                                        copy.logical_block_size, CurrentAd),
                                    copy.offset),
                         len |-> len_this_iteration(CurrentAd, copy.offset)]),
                    !.offset = @ + len_this_iteration(CurrentAd, copy.offset)]
    /\ UNCHANGED <<cacheVars, addr, anc, vds, call, walk>>

\* The while loop ends: the next short_ad of the File Entry
NextExtent ==
    /\ copy.pc = "loop" /\ copy.fe <= Len(copy.file_entries)
    /\ copy.ad <= Len(CurrentAds)
    /\ ~(copy.offset < extent_length_bytes(CurrentAd))
    /\ copy' = [copy EXCEPT !.ad = @ + 1, !.offset = 0]
    /\ UNCHANGED <<cacheVars, addr, anc, vds, call, walk>>

\* The File Entry's short_ads are done: the next File Entry
NextFileEntry ==
    /\ copy.pc = "loop" /\ copy.fe <= Len(copy.file_entries)
    /\ copy.ad > Len(CurrentAds)
    /\ copy' = [copy EXCEPT !.fe = @ + 1, !.ad = 1, !.offset = 0]
    /\ UNCHANGED <<cacheVars, addr, anc, vds, call, walk>>

\* sync_all and Ok(())
FinishFile ==
    /\ copy.pc = "loop" /\ copy.fe > Len(copy.file_entries)
    /\ copy' = [copy EXCEPT !.pc = "done"]
    /\ UNCHANGED <<cacheVars, addr, anc, vds, call, walk>>

CopyNext == OpenFile \/ CopyChunk \/ NextExtent \/ NextFileEntry \/ FinishFile

SpecCopyInit ==
    /\ CacheIdle /\ addr = Idle /\ anc = Idle /\ vds = Idle
    /\ call = Idle /\ walk = Idle /\ InitCopy

SpecCopy == SpecCopyInit /\ [][CopyNext]_vars

\* The short_ad a log entry belongs to, as recorded in the File Entry
AdOf(entry) ==
    ShortAllocationDescriptor_read(
        OneSector(PutBytes(0, copy.file_entries[entry.fe])),
        [pos |-> 256 * LOGICAL_SECTOR_SIZE
                   + (entry.ad - 1) * ShortAllocationDescriptor_size,
         len |-> ShortAllocationDescriptor_size])

\* C19: an extent of type 1 or 2 contributes extent_length zero bytes to the
\* output and causes no read; only an extent of type 0 contributes bytes
\* read from the partition.
C19_ExtentTypes ==
    /\ \A i \in 1 .. Len(copy.reads) : extent_type(AdOf(copy.reads[i])) = 0
    /\ \A i \in 1 .. Len(copy.output) :
          copy.output[i].from = "partition"
             => extent_type(AdOf(copy.output[i])) = 0

\* The log entries of one extent, in log order
EntriesOfExtent(log, fe, ad) ==
    SelectSeq(log, LAMBDA e : e.fe = fe /\ e.ad = ad)

RECURSIVE SumLen(_)
SumLen(log) == IF log = <<>> THEN 0 ELSE Head(log).len + SumLen(Tail(log))

\* Extent (fe, ad) precedes or is extent (fe2, ad2) in the ICB's order
InIcbOrder(e, e2) == e.fe < e2.fe \/ (e.fe = e2.fe /\ e.ad <= e2.ad)

NumberOfAds(fe) == Len(copy.file_entries[fe]) \div ShortAllocationDescriptor_size

\* C20: the output is the concatenation of the file's extents in the order
\* of the File Entries and, within one, of its short_ads; within an extent
\* the reads are at strictly increasing partition offsets, one after the
\* other from the extent's start, and cover exactly extent_length bytes;
\* nothing is skipped, repeated or reordered.
C20_ExtentOrdering ==
    /\ Len(copy.output) = Len(copy.reads)
    /\ \A i \in 1 .. Len(copy.output) :
          /\ copy.output[i].pos = copy.reads[i].pos
          /\ copy.output[i].len = copy.reads[i].len
          /\ copy.output[i].fe = copy.reads[i].fe
          /\ copy.output[i].ad = copy.reads[i].ad
          /\ copy.reads[i].len > 0
    /\ \A i \in 1 .. (Len(copy.reads) - 1) :
          /\ InIcbOrder(copy.reads[i], copy.reads[i + 1])
          /\ (copy.reads[i].fe = copy.reads[i + 1].fe
                /\ copy.reads[i].ad = copy.reads[i + 1].ad)
               => copy.reads[i + 1].pos = copy.reads[i].pos + copy.reads[i].len
    /\ \A i \in 1 .. Len(copy.reads) :
          (i = 1 \/ copy.reads[i - 1].fe # copy.reads[i].fe
                 \/ copy.reads[i - 1].ad # copy.reads[i].ad)
             => copy.reads[i].pos
                   = AdOf(copy.reads[i]).extent_location * copy.logical_block_size
    /\ copy.pc = "done" =>
          \A fe \in 1 .. Len(copy.file_entries) :
             \A ad \in 1 .. NumberOfAds(fe) :
                SumLen(EntriesOfExtent(copy.output, fe, ad))
                   = extent_length_bytes(AdOf([fe |-> fe, ad |-> ad]))

\* A file of two File Entries has been copied, one of its extents in three
\* chunks and another in two
C20_Witness ==
    /\ copy.pc = "done" /\ Len(copy.file_entries) = 2
    /\ Len(EntriesOfExtent(copy.output, 1, 2)) = 3
    /\ Len(EntriesOfExtent(copy.output, 2, 1)) = 2
    /\ Len(copy.output) = 6

(***************************************************************************)
(* Errors during the traversal (main.rs, run_on_directory and read_file)   *)
(***************************************************************************)
\* What an image may have wrong with a directory and with a file:
\*   "partition"  the entry's icb names a partition that is not in the table
\*   "icb"        read_file_entries of its ICB returns an error
\*   "directory"  read_directory_contents returns an error
\*   "create"     File::create_new of the output file returns an error
\*   "read"       read_exact_from_partition of the file's data returns an error
DirectoryFaults == {"partition", "icb", "directory"}

FileFaults == {"partition", "icb", "create", "read"}

FaultCounts == {0, 1, 2}

AbortTrees == {t \in Trees : t.ndirs < MaxDirs /\ t.parent_fc = 8}

ObjectsOf(tree) == (0 .. (tree.ndirs - 1)) \cup {FileBlock + d : d \in tree.files}

FaultsOf(tree) ==
    UNION {{f \in [objs -> DirectoryFaults \cup FileFaults] :
               \A o \in objs : f[o] \in (IF o < FileBlock THEN DirectoryFaults
                                         ELSE FileFaults)} :
           objs \in {s \in SUBSET ObjectsOf(tree) : Cardinality(s) \in FaultCounts}}

FaultAt(faults, o) == IF o \in DOMAIN faults THEN faults[o] ELSE "none"

\* The partition_reference_number of the icb that names block o
PrnOf(faults, o) == IF FaultAt(faults, o) = "partition" THEN 1 ELSE 0

FaultyEntries(tree, faults, d) ==
    [i \in 1 .. Len(EntriesOf(tree, d)) |->
        [EntriesOf(tree, d)[i] EXCEPT
            !.icb.extent_location.partition_reference_number =
                PrnOf(faults,
                      EntriesOf(tree, d)[i].icb.extent_location.logical_block_number)]]

\* The error values; at is the block of the entry where the error arose and
\* tells two errors of the same kind apart
UdfError(error, at) == Err([error |-> error, at |-> at])

InitAbort ==
    \E tree \in AbortTrees : \E faults \in FaultsOf(tree) :
       walk = [pc |-> "call", tree |-> tree, faults |-> faults,
               partition_descriptors |-> {0},
               dirs |-> [d \in 0 .. (tree.ndirs - 1) |->
                            parse_file_identifiers(
                                OneSector(FidsContent(FaultyEntries(tree, faults, d))),
                                [pos |-> 256 * LOGICAL_SECTOR_SIZE,
                                 len |-> FidsLength(EntriesOf(tree, d))])],
               icb |-> 0, stack |-> <<>>, error |-> Ok(<<>>),
               visited |-> <<>>, copied |-> <<>>, created |-> <<>>,
               skipped |-> <<>>, descended |-> <<>>]

\* The partition_reference_number of the icb_address of the call
icb_address_prn ==
    IF walk.stack = <<>> THEN PrnOf(walk.faults, 0)
    ELSE CurrentFid.icb.extent_location.partition_reference_number

\* A function returns Err(e): the ? operator hands it to the caller
Raise(w, e) == [w EXCEPT !.pc = "raise", !.error = e]

\* run_on_directory up to its loop: the partition lookup, read_file_entries
\* and read_directory_contents, each followed by ?
RunOnDirectory ==
    /\ walk.pc = "call"
    /\ walk' =
         IF icb_address_prn \notin walk.partition_descriptors
         THEN Raise(walk, UdfError("InvalidPartitionNumber", walk.icb))
         ELSE IF FaultAt(walk.faults, walk.icb) = "icb"
         THEN Raise(walk, UdfError("read_file_entries", walk.icb))
         ELSE IF FaultAt(walk.faults, walk.icb) = "directory"
         THEN Raise(walk, UdfError("read_directory_contents", walk.icb))
         ELSE IF walk.dirs[walk.icb].kind # "ok"
         THEN Raise(walk, walk.dirs[walk.icb])
         ELSE [walk EXCEPT
                  !.pc = "loop",
                  !.visited = Append(@, walk.icb),
                  !.stack = Append(@, [icb |-> walk.icb, i |-> 1,
                                       fids |-> walk.dirs[walk.icb].v])]
    /\ UNCHANGED <<cacheVars, addr, anc, vds, call, copy>>

\* One turn of the loop on an entry that is neither parent nor directory:
\* read_file, which looks the partition up, reads the ICB, creates the output
\* file and then copies the data
ReadFile ==
    /\ walk.pc = "loop" /\ TopFrame.i <= Len(TopFrame.fids)
    /\ ~is_parent(CurrentFid) /\ ~is_directory(CurrentFid)
    /\ walk' =
         IF icb_address_prn \notin walk.partition_descriptors
         THEN Raise([walk EXCEPT !.copied = Append(@, CurrentFid)],
                    UdfError("InvalidPartitionNumber",
                             CurrentFid.icb.extent_location.logical_block_number))
         ELSE IF FaultAt(walk.faults,
                         CurrentFid.icb.extent_location.logical_block_number)
                    = "icb"
         THEN Raise([walk EXCEPT !.copied = Append(@, CurrentFid)],
                    UdfError("read_file_entries",
                             CurrentFid.icb.extent_location.logical_block_number))
         ELSE IF FaultAt(walk.faults,
                         CurrentFid.icb.extent_location.logical_block_number)
                    = "create"
         THEN Raise([walk EXCEPT !.copied = Append(@, CurrentFid)],
                    UdfError("create_new",
                             CurrentFid.icb.extent_location.logical_block_number))
         ELSE IF FaultAt(walk.faults,
                         CurrentFid.icb.extent_location.logical_block_number)
                    = "read"
         THEN Raise([walk EXCEPT
                        !.copied = Append(@, CurrentFid),
                        !.created = Append(@,
                            CurrentFid.icb.extent_location.logical_block_number)],
                    UdfError("read_exact_from_partition",
                             CurrentFid.icb.extent_location.logical_block_number))
         ELSE [walk EXCEPT
                  !.stack = Advance(@),
                  !.copied = Append(@, CurrentFid),
                  !.created = Append(@,
                      CurrentFid.icb.extent_location.logical_block_number)]
    /\ UNCHANGED <<cacheVars, addr, anc, vds, call, copy>>

\* What a caller does with the Err its callee returned.  result? returns it
\* at once; the other goes on with the next entry of its loop.
propagate_Swallow(w) == [w EXCEPT !.pc = "loop", !.stack = Advance(@)]

propagate(w) == [w EXCEPT !.stack = Front(@)]

\* An error travels one frame up; from the outermost frame it reaches run
Propagate ==
    /\ walk.pc = "raise"
    /\ IF walk.stack = <<>>
       THEN walk' = [walk EXCEPT !.pc = "done"] @@ [result |-> walk.error]
       ELSE walk' = propagate(walk)
    /\ UNCHANGED <<cacheVars, addr, anc, vds, call, copy>>

AbortNext ==
    RunOnDirectory \/ SkipParent \/ Descend \/ ReadFile \/ Return \/ Propagate

SpecAbortInit ==
    /\ CacheIdle /\ addr = Idle /\ anc = Idle /\ vds = Idle
    /\ call = Idle /\ InitAbort /\ copy = Idle

SpecAbort == SpecAbortInit /\ [][AbortNext]_vars

\* What the image determines: the directories read, the output files created
\* and the outcome, going through the entries in order up to the first one
\* that has something wrong
Outcome(visited, created, result) ==
    [visited |-> visited, created |-> created, result |-> result]

FaultError(faults, o) ==
    UdfError(CASE FaultAt(faults, o) = "partition" -> "InvalidPartitionNumber"
               [] FaultAt(faults, o) = "icb" -> "read_file_entries"
               [] FaultAt(faults, o) = "directory" -> "read_directory_contents"
               [] FaultAt(faults, o) = "create" -> "create_new"
               [] OTHER -> "read_exact_from_partition", o)

ExpectedOfFile(faults, b) ==
    Outcome(<<>>,
            IF FaultAt(faults, b) \in {"none", "read"} THEN <<b>> ELSE <<>>,
            IF FaultAt(faults, b) = "none" THEN Ok(<<>>)
            ELSE FaultError(faults, b))

RECURSIVE ExpectedOfDirectory(_, _, _)
RECURSIVE ExpectedOfEntries(_, _, _, _)
ExpectedOfEntries(tree, faults, targets, sofar) ==
    IF targets = <<>> \/ sofar.result.kind = "err" THEN sofar
    ELSE ExpectedOfEntries(tree, faults, Tail(targets),
            LET this == IF Head(targets) >= FileBlock
                        THEN ExpectedOfFile(faults, Head(targets))
                        ELSE ExpectedOfDirectory(tree, faults, Head(targets))
            IN  Outcome(sofar.visited \o this.visited,
                        sofar.created \o this.created, this.result))

ExpectedOfDirectory(tree, faults, d) ==
    IF FaultAt(faults, d) # "none"
    THEN Outcome(<<>>, <<>>, FaultError(faults, d))
    ELSE ExpectedOfEntries(tree, faults,
            SeqOfSet(Children(tree, d))
               \o (IF d \in tree.files THEN <<FileBlock + d>> ELSE <<>>),
            Outcome(<<d>>, <<>>, Ok(<<>>)))

TAG_FSD == 256

CharSpec_read(img, bytes) ==
    [character_set_type |-> BufAt(img, bytes, 0),
     character_set_info |-> GetBytes(img, bytes, 1, 64)]

FileSetDescriptor_read(img, bytes) ==
    [tag |-> DescriptorTag_read(img, Slice(bytes, 0, 16)),
     recording_date_and_time |-> Timestamp_read(img, Slice(bytes, 16, 28)),
     interchange_level |-> Get16(img, bytes, 28),
     maximum_interchange_level |-> Get16(img, bytes, 30),
     character_set_list |-> GetBytes(img, bytes, 32, 36),
     maximum_character_set_list |-> GetBytes(img, bytes, 36, 40),
     file_set_number |-> GetBytes(img, bytes, 40, 44),
     file_set_descriptor_number |-> GetBytes(img, bytes, 44, 48),
     logical_volume_identifier_character_set |->
         CharSpec_read(img, Slice(bytes, 48, 112)),
     logical_volume_identifier |-> GetBytes(img, bytes, 112, 240),
     file_set_character_set |-> CharSpec_read(img, Slice(bytes, 240, 304)),
     file_set_identifier |-> GetBytes(img, bytes, 304, 336),
     copyright_file_identifier |-> GetBytes(img, bytes, 336, 368),
     abstract_file_identifier |-> GetBytes(img, bytes, 368, 400),
     root_directory_icb |-> LongAd_read(img, Slice(bytes, 400, 416)),
     domain_identifier |-> EntityID_read(img, Slice(bytes, 416, 448)),
     next_extent |-> LongAd_read(img, Slice(bytes, 448, 464)),
     system_stream_directory_icb |-> LongAd_read(img, Slice(bytes, 464, 480)),
     reserved |-> GetBytes(img, bytes, 480, 512)]

\* buf.chunks_exact(512): the size of a chunk
ChunkSize == 512

\* The inner loop, left chunks still to go.  Each turn reads the tag and the
\* descriptor from the start of buf, whichever chunk it is at.
RECURSIVE chunks_loop(_, _, _, _)
chunks_loop(img, buf, left, fsds) ==
    IF left = 0 THEN [next |-> "continue", fsds |-> fsds]
    ELSE IF ~validate_descriptor_tag(img, DescriptorTag_read(img, buf), buf)
    THEN [next |-> "return", fsds |-> fsds]
    ELSE IF DescriptorTag_read(img, buf).tag_identifier = TAG_TERMINATING
    THEN [next |-> "break", fsds |-> fsds]
    ELSE IF DescriptorTag_read(img, buf).tag_identifier = TAG_FSD
    THEN chunks_loop(img, buf, left - 1,
                     Append(fsds, FileSetDescriptor_read(img, buf)))
    ELSE chunks_loop(img, buf, left - 1, fsds)

\* The sectors of a partition's start: File Set Descriptors, a Terminating
\* Descriptor, blank sectors and sectors with a damaged tag
FsdKinds == {"fsd", "term", "zero", "bad"}

MaxFsdSectors == 3

FsdStart == 300

FsdSector(kind, i) ==
    CASE kind = "fsd" ->
            Sealed(TagBody(TAG_FSD, i) @@ Put32(44, i) @@ Put32(404, 2 + i)
                   @@ Put32(400, LOGICAL_SECTOR_SIZE))
      [] kind = "term" -> Sealed(TagBody(TAG_TERMINATING, i))
      [] kind = "bad" -> (4 :> 1) @@ TagBody(TAG_FSD, i)
      [] OTHER -> ZeroSector

FsdImage(kinds) ==
    [kind |-> "cursor", sector_size |-> LOGICAL_SECTOR_SIZE, data_offset |-> 0,
     nsectors |-> FsdStart + Len(kinds),
     sectors |-> [s \in FsdStart .. (FsdStart + Len(kinds) - 1) |->
                     FsdSector(kinds[s - FsdStart + 1], s - FsdStart)]]

InitFsd ==
    \E n \in 0 .. MaxFsdSectors :
       \E kinds \in [1 .. n -> FsdKinds], partition_length \in 0 .. (n + 1) :
          call = [pc |-> "loop", fn |-> "read_fileset_descriptors",
                  kinds |-> kinds, img |-> FsdImage(kinds),
                  partition_descriptor |->
                      [partition_starting_location |-> FsdStart,
                       partition_length |-> partition_length],
                  position |-> FsdStart * LOGICAL_SECTOR_SIZE,
                  read_block_count |-> 0, fsds |-> <<>>]

FsdBuf == [pos |-> call.position, len |-> LOGICAL_SECTOR_SIZE]

\* The while condition fails: Ok(fsds)
FsdFinish ==
    /\ call.pc = "loop" /\ call.fn = "read_fileset_descriptors"
    /\ ~(call.read_block_count < call.partition_descriptor.partition_length)
    /\ call' = [call EXCEPT !.pc = "done"] @@ [result |-> Ok(call.fsds)]
    /\ UNCHANGED <<cacheVars, addr, anc, vds, walk, copy>>

\* One turn of the while loop: read_exact of the next 2048 bytes, then the
\* loop over the chunks
FsdReadBlock ==
    /\ call.pc = "loop" /\ call.fn = "read_fileset_descriptors"
    /\ call.read_block_count < call.partition_descriptor.partition_length
    /\ IF call.position + LOGICAL_SECTOR_SIZE > SourceLen(call.img)
       THEN call' = [call EXCEPT !.pc = "done"] @@ [result |-> Err("Io")]
       ELSE IF chunks_loop(call.img, FsdBuf, LOGICAL_SECTOR_SIZE \div ChunkSize,
                           call.fsds).next = "return"
       THEN call' = [call EXCEPT !.pc = "done",
                                 !.read_block_count = @ + 1,
                                 !.position = @ + LOGICAL_SECTOR_SIZE]
                       @@ [result |-> Err("InvalidDescriptorTag")]
       ELSE IF chunks_loop(call.img, FsdBuf, LOGICAL_SECTOR_SIZE \div ChunkSize,
                           call.fsds).next = "break"
       THEN call' = [call EXCEPT !.pc = "done",
                                 !.read_block_count = @ + 1,
                                 !.position = @ + LOGICAL_SECTOR_SIZE]
                       @@ [result |->
                              Ok(chunks_loop(call.img, FsdBuf,
                                     LOGICAL_SECTOR_SIZE \div ChunkSize,
                                     call.fsds).fsds)]
       ELSE call' = [call EXCEPT
                        !.read_block_count = @ + 1,
                        !.position = @ + LOGICAL_SECTOR_SIZE,
                        !.fsds = chunks_loop(call.img, FsdBuf,
                                     LOGICAL_SECTOR_SIZE \div ChunkSize,
                                     call.fsds).fsds]
    /\ UNCHANGED <<cacheVars, addr, anc, vds, walk, copy>>

SpecFsdInit ==
    /\ CacheIdle /\ addr = Idle /\ anc = Idle /\ vds = Idle
    /\ InitFsd /\ walk = Idle /\ copy = Idle

FsdNext == FsdReadBlock \/ FsdFinish

SpecFsd == SpecFsdInit /\ [][FsdNext]_vars

\* The sectors that come before the first Terminating Descriptor and within
\* the first partition_length sectors
FsdScanned(kinds, partition_length) ==
    {i \in 1 .. Len(kinds) :
        /\ i <= partition_length
        /\ \A j \in 1 .. i : kinds[j] # "term"}

FsdExpected(img, kinds, partition_length) ==
    [k \in 1 .. Cardinality({i \in FsdScanned(kinds, partition_length) :
                                kinds[i] = "fsd"}) |->
        FileSetDescriptor_read(img,
            [pos |-> (FsdStart - 1
                        + SeqOfSet({i \in FsdScanned(kinds, partition_length) :
                                       kinds[i] = "fsd"})[k])
                     * LOGICAL_SECTOR_SIZE,
             len |-> LOGICAL_SECTOR_SIZE])]

\* C22: read_fileset_descriptors never reads more than partition_length
\* sectors, and what it returns on Ok is one FileSetDescriptor per sector
\* with tag_identifier 256, in on-disk order, among the sectors before the
\* first one with tag_identifier 8 and within the first partition_length.
C22_FilesetCollection ==
    call.pc \in {"loop", "done"} /\ call.fn = "read_fileset_descriptors" =>
       /\ call.read_block_count <= call.partition_descriptor.partition_length
       /\ call.pc = "done" /\ call.result.kind = "ok" =>
             call.result.v = FsdExpected(call.img, call.kinds,
                                call.partition_descriptor.partition_length)

\* The part of C22 about the number of sectors read, on its own
C22_ReadsWithinPartition ==
    call.pc \in {"loop", "done"} /\ call.fn = "read_fileset_descriptors" =>
       /\ call.read_block_count <= call.partition_descriptor.partition_length
       /\ call.position = (FsdStart + call.read_block_count) * LOGICAL_SECTOR_SIZE
       /\ call.pc = "done" /\ call.result.kind = "ok" =>
             call.read_block_count =
                Cardinality(FsdScanned(call.kinds,
                               call.partition_descriptor.partition_length))
                + (IF \E i \in 1 .. Len(call.kinds) :
                         /\ i <= call.partition_descriptor.partition_length
                         /\ call.kinds[i] = "term"
                   THEN 1 ELSE 0)

(***************************************************************************)
(* The entries of an ICB (udf_parser.rs, read_file_entries)                *)
(***************************************************************************)
TAG_FILE_ENTRY == 261

TAG_INDIRECT_ENTRY == 259

\* read_exact_from_partition into a buffer of extent_length_bytes() bytes:
\* the bytes at partition_starting_location * 2048 + extent_location *
\* logical_block_size, or an error when one of them lies beyond the source
read_extent(img, logical_volume_descriptor, partition_descriptor, short_ad) ==
    IF /\ extent_length_bytes(short_ad) > 0
       /\ partition_descriptor.partition_starting_location * DVDCSS_BLOCK_SIZE
             + short_ad.extent_location
                  * logical_volume_descriptor.logical_block_size
             + extent_length_bytes(short_ad) > SourceLen(img)
    THEN Err("Io")
    ELSE Ok([pos |-> partition_descriptor.partition_starting_location
                        * DVDCSS_BLOCK_SIZE
                     + short_ad.extent_location
                        * logical_volume_descriptor.logical_block_size,
             len |-> extent_length_bytes(short_ad)])

\* One turn of the while loop on the bytes read, at pos_in_icb: a File Entry
\* is pushed and the position advanced ("push"), the loop is left ("break")
\* or the function returns.  A subtraction below zero, a slice index past the
\* end of its slice and the two panic! calls abort the process.
icb_turn(img, bytes, pos_in_icb) ==
    LET buf == Slice(bytes, pos_in_icb, bytes.len)
        tag == DescriptorTag_read(img, Slice(buf, 0, DescriptorTag_size))
        file_entry == FileEntry_read(img, buf)
    IN  IF bytes.len < pos_in_icb
        THEN [next |-> "return", result |-> Panicked]
        ELSE IF ~(bytes.len - pos_in_icb >= DescriptorTag_size)
        THEN [next |-> "break"]
        ELSE IF tag.tag_identifier = 0
        THEN [next |-> "break"]
        ELSE IF ~validate_descriptor_tag(img, tag, buf)
        THEN [next |-> "return", result |-> Err("InvalidDescriptorTag")]
        ELSE IF tag.tag_identifier = TAG_FILE_ENTRY
        THEN IF file_entry = Panicked
             THEN [next |-> "return", result |-> Panicked]
             ELSE [next |-> "push", file_entry |-> file_entry,
                   pos_in_icb |-> pos_in_icb + FileEntry_get_length(file_entry)]
        ELSE IF tag.tag_identifier = TAG_TERMINAL_ENTRY
        THEN [next |-> "break"]
        ELSE [next |-> "return", result |-> Panicked]

\* The records an ICB is made of.  File Entries: "fe0" without extended
\* attributes and allocation descriptors, "fe8" with both, "fe_crc" with a
\* CRC over its body.  "zero_bad" has tag_identifier 0 and a wrong
\* checksum, "bad" and "bad_crc" are File Entries whose tag fails the checksum
\* and the CRC.  "overrun" declares 8 bytes of allocation descriptors it has
\* not got, "short" is cut inside its fixed part, "tail" is a rest of 12 bytes.
IcbFeKinds == {"fe0", "fe8", "fe_crc"}

IcbEndKinds == {"terminal", "zero", "zero_bad", "tail"}

IcbKinds ==
    IcbFeKinds \cup IcbEndKinds
        \cup {"indirect", "other", "bad", "bad_crc", "overrun", "short"}

IcbTag ==
    [tag_identifier |-> TAG_FILE_ENTRY, descriptor_version |-> 2,
     tag_checksum |-> 0, _reserved |-> 0, tag_serial_number |-> 0,
     descriptor_crc |-> 0, descriptor_crc_length |-> 0,
     tag_location |-> <<3, 0, 0, 0>>]

IcbFileEntry(ea, ad) ==
    [(CHOOSE f \in FileEntries :
         f.uid = 0 /\ f.extended_attributes = ea /\ f.allocation_descriptors = ad)
     EXCEPT !.tag = IcbTag]

IcbUnsealed(kind) ==
    CASE kind = "fe8" ->
            FileEntry_write(IcbFileEntry(<<9, 8, 7, 6>>, Counting(8)), 188).v
      [] kind = "overrun" ->
            [o \in 0 .. 175 |->
                ByteOf(FileEntry_write(IcbFileEntry(<<>>, Counting(8)), 184).v, o)]
      [] OTHER -> FileEntry_write(IcbFileEntry(<<>>, <<>>), 176).v

IcbLength(kind) ==
    CASE kind = "fe8" -> 188
      [] kind = "terminal" -> 36
      [] kind = "zero" -> 20
      [] kind = "zero_bad" -> 16
      [] kind = "tail" -> 12
      [] kind = "indirect" -> 52
      [] kind = "other" -> 40
      [] kind = "short" -> 100
      [] OTHER -> 176

IcbContentOf(kind) ==
    CASE kind \in {"fe0", "fe8", "overrun"} -> Sealed(IcbUnsealed(kind))
      [] kind = "fe_crc" -> Sealed(WithCrc(IcbUnsealed(kind), 160))
      [] kind = "terminal" -> Sealed(TagBody(TAG_TERMINAL_ENTRY, 3))
      [] kind = "zero" -> ZeroSector
      [] kind = "zero_bad" -> Put8(4, 77) @@ Put32(12, 3)
      [] kind = "tail" -> PutBytes(0, [i \in 1 .. 12 |-> 255])
      [] kind = "indirect" -> Sealed(TagBody(TAG_INDIRECT_ENTRY, 3))
      [] kind = "other" -> Sealed(TagBody(TAG_FID, 3))
      [] kind = "bad" ->
            Put8(4, (Sealed(IcbUnsealed(kind))[4] + 1) % 256) @@ IcbUnsealed(kind)
      [] kind = "bad_crc" ->
            Sealed(Put16(8, (cksum([i \in 1 .. 8 |->
                                       ByteOf(IcbUnsealed(kind), 15 + i)]) + 1)
                               % 65536)
                   @@ Put16(10, 8) @@ IcbUnsealed(kind))
      [] kind = "short" ->
            [o \in 0 .. 99 |-> ByteOf(Sealed(IcbUnsealed(kind)), o)]

\* The contents, worked out once
IcbContent == [kind \in IcbKinds |-> IcbContentOf(kind)]

\* The File Entry a record holds: its tag as recorded
IcbEntryOf(kind) ==
    [IcbFileEntry(IF kind = "fe8" THEN <<9, 8, 7, 6>> ELSE <<>>,
                  IF kind = "fe8" THEN Counting(8) ELSE <<>>)
     EXCEPT !.tag.tag_checksum = ByteOf(IcbContentOf(kind), 4),
            !.tag.descriptor_crc = ByteOf(IcbContentOf(kind), 8)
                                      + 256 * ByteOf(IcbContentOf(kind), 9),
            !.tag.descriptor_crc_length = ByteOf(IcbContentOf(kind), 10)
                                      + 256 * ByteOf(IcbContentOf(kind), 11)]

IcbEntry == [kind \in IcbFeKinds |-> IcbEntryOf(kind)]

MaxIcbEntries == 2

RECURSIVE IcbBytesLength(_)
IcbBytesLength(kinds) ==
    IF kinds = <<>> THEN 0
    ELSE IcbLength(Head(kinds)) + IcbBytesLength(Tail(kinds))

RECURSIVE IcbBytesContent(_)
IcbBytesContent(kinds) ==
    IF kinds = <<>> THEN ZeroSector
    ELSE IcbContent[Head(kinds)]
            @@ Shifted(IcbLength(Head(kinds)), IcbBytesContent(Tail(kinds)))

\* An ICB: File Entries, then possibly a record of another kind (nothing
\* is parsed beyond it), then possibly one more File Entry
IcbSequences ==
    {fes \o rest :
        fes \in UNION {[1 .. n -> IcbFeKinds] : n \in 0 .. MaxIcbEntries},
        rest \in {<<>>} \cup {<<k>> : k \in IcbKinds \ IcbFeKinds}
                   \cup {<<k, "fe0">> :
                            k \in IcbKinds \ (IcbFeKinds \cup {"overrun", "short"})}}

IcbPartitionStart == 256

IcbLocations == {3, 1000}

ExtentTypes == 0 .. 3

\* The boundaries of the records
IcbStarts(kinds) == {IcbBytesLength(SubSeq(kinds, 1, k)) : k \in 0 .. Len(kinds)}

IcbImage(kinds, extent_location) ==
    [kind |-> "cursor", sector_size |-> LOGICAL_SECTOR_SIZE, data_offset |-> 0,
     nsectors |-> VdsSectors,
     sectors |-> ((IcbPartitionStart + extent_location) :> IcbBytesContent(kinds))]

IcbShortAd(kinds, extent_location, type) ==
    [extent_length_and_type |->
         <<IcbBytesLength(kinds) % 256, IcbBytesLength(kinds) \div 256, 0,
           64 * type>>,
     extent_location |-> extent_location]

IcbExtent(kinds, extent_location, type) ==
    read_extent(IcbImage(kinds, extent_location),
                [logical_block_size |-> LOGICAL_SECTOR_SIZE],
                [partition_starting_location |-> IcbPartitionStart],
                IcbShortAd(kinds, extent_location, type))

\* The partition holds the ICB at logical block extent_location; the short_ad
\* carries its length in the low 30 bits and an extent type in the top two.
\* extent is what the read of the extent returns and turns what a turn of
\* the loop does at each record boundary of the bytes read.
InitIcb ==
    \E kinds \in IcbSequences, extent_location \in IcbLocations,
       type \in ExtentTypes :
       call = [pc |-> "read", fn |-> "read_file_entries", kinds |-> kinds,
               short_ad |-> IcbShortAd(kinds, extent_location, type),
               extent |-> IcbExtent(kinds, extent_location, type),
               turns |-> IF IcbExtent(kinds, extent_location, type).kind = "ok"
                         THEN [p \in IcbStarts(kinds) |->
                                  icb_turn(IcbImage(kinds, extent_location),
                                      IcbExtent(kinds, extent_location, type).v,
                                      p)]
                         ELSE <<>>,
               bytes |-> [pos |-> 0, len |-> 0],
               pos_in_icb |-> 0, entries |-> <<>>]

\* The extent is read, ? on its result
IcbRead ==
    /\ call.pc = "read" /\ call.fn = "read_file_entries"
    /\ IF call.extent.kind # "ok"
       THEN call' = [call EXCEPT !.pc = "done"] @@ [result |-> call.extent]
       ELSE call' = [call EXCEPT !.pc = "loop", !.bytes = call.extent.v]
    /\ UNCHANGED <<cacheVars, addr, anc, vds, walk, copy>>

\* A turn of the loop that finds a File Entry
IcbTurn ==
    /\ call.pc = "loop" /\ call.fn = "read_file_entries"
    /\ call.turns[call.pos_in_icb].next = "push"
    /\ call' = [call EXCEPT
           !.pos_in_icb = call.turns[call.pos_in_icb].pos_in_icb,
           !.entries = Append(@, call.turns[call.pos_in_icb].file_entry)]
    /\ UNCHANGED <<cacheVars, addr, anc, vds, walk, copy>>

\* The turn that leaves the function: Ok(entries) after the loop, or the
\* return from within it
IcbReturn ==
    /\ call.pc = "loop" /\ call.fn = "read_file_entries"
    /\ call.turns[call.pos_in_icb].next # "push"
    /\ call' = [call EXCEPT !.pc = "done"]
                  @@ [result |->
                         IF call.turns[call.pos_in_icb].next = "break"
                         THEN Ok(call.entries)
                         ELSE call.turns[call.pos_in_icb].result]
    /\ UNCHANGED <<cacheVars, addr, anc, vds, walk, copy>>

IcbNext == IcbRead \/ IcbTurn \/ IcbReturn

SpecIcbInit ==
    /\ CacheIdle /\ addr = Idle /\ anc = Idle /\ vds = Idle
    /\ InitIcb /\ walk = Idle /\ copy = Idle

\* One thread runs the function to its end
SpecIcb == SpecIcbInit /\ [][IcbNext]_vars /\ WF_vars(IcbNext)

\* What the records of an ICB are to yield
RECURSIVE IcbExpected(_, _)
IcbExpected(kinds, entries) ==
    IF kinds = <<>> THEN Ok(entries)
    ELSE CASE Head(kinds) \in IcbFeKinds ->
                IcbExpected(Tail(kinds), Append(entries, IcbEntry[Head(kinds)]))
           [] Head(kinds) \in {"terminal", "zero", "zero_bad"} -> Ok(entries)
           [] Head(kinds) = "tail" ->
                IF IcbBytesLength(kinds) < DescriptorTag_size THEN Ok(entries)
                ELSE Err("InvalidDescriptorTag")
           [] Head(kinds) \in {"bad", "bad_crc"} -> Err("InvalidDescriptorTag")
           [] OTHER -> Panicked

IcbWhole(kinds) == \A i \in 1 .. Len(kinds) : kinds[i] \notin {"overrun", "short"}

IcbBeyondSource ==
    /\ IcbBytesLength(call.kinds) > 0
    /\ IcbPartitionStart + call.short_ad.extent_location >= VdsSectors

IcbInvariant ==
    /\ call.pc = "loop" \/ (call.pc = "done" /\ ~IcbBeyondSource) =>
          /\ call.bytes.pos =
                (IcbPartitionStart + call.short_ad.extent_location)
                   * LOGICAL_SECTOR_SIZE
          /\ call.bytes.len = IcbBytesLength(call.kinds)
    /\ call.pos_in_icb <= call.bytes.len
    /\ Len(call.entries) <= Len(call.kinds)
    /\ call.pos_in_icb = IcbBytesLength(SubSeq(call.kinds, 1, Len(call.entries)))
    /\ \A i \in 1 .. Len(call.entries) :
          /\ call.kinds[i] \in IcbFeKinds
          /\ call.entries[i] = IcbEntry[call.kinds[i]]
    /\ call.pc = "done" /\ IcbWhole(call.kinds) =>
          call.result = IF IcbBeyondSource THEN Err("Io")
                        ELSE IcbExpected(call.kinds, <<>>)
    /\ call.pc = "done" /\ call.result.kind = "ok" =>
          /\ call.result.v = call.entries
          /\ Len(call.entries) < Len(call.kinds) =>
                call.kinds[Len(call.entries) + 1] \in IcbEndKinds
    /\ call.pc = "done" /\ call.result.kind = "err" /\ ~IcbBeyondSource =>
          /\ Len(call.entries) < Len(call.kinds)
          /\ call.kinds[Len(call.entries) + 1] \in {"bad", "bad_crc", "tail"}

\* C26: read_file_entries reads extent_length_and_type & 0x3FFFFFFF bytes at
\* partition offset extent_location * logical_block_size; pos_in_icb never
\* exceeds the length of the buffer and is the sum of 176 + L_EA + L_AD over
\* the File Entries found; for an ICB whose File Entries lie whole in the
\* buffer the result is Ok with those entries in order when the walk reaches
\* tag_identifier 0, a Terminal Entry or a rest of fewer than 16 bytes,
\* Err(InvalidDescriptorTag) with no entries when a tag fails its checksum or
\* CRC, and never Ok at an Indirect Entry or another tag_identifier; and the
\* function comes to its end.
C26_IcbWalk == [](IcbInvariant) /\ <>(call.pc = "done")

\* Two File Entries, the second with extended attributes and allocation
\* descriptors and the first with a CRC, then a Terminal Entry and a File
\* Entry that is not looked at: Ok with the two entries
C26_Witness ==
    /\ call.pc = "done" /\ call.fn = "read_file_entries"
    /\ call.kinds = <<"fe_crc", "fe8", "terminal", "fe0">>
    /\ call.short_ad.extent_length_and_type[4] = 192
    /\ call.result = Ok(<<IcbEntry["fe_crc"], IcbEntry["fe8"]>>)
    /\ call.pos_in_icb = 176 + 188

\* C23: a File Entry whose 176 + L_EA + L_AD exceeds the bytes that remain
\* in the buffer makes read_file_entries return Err(BufferTooSmall).
C23_BoundsChecking ==
    /\ call.pc = "done" /\ call.fn = "read_file_entries"
    /\ ~IcbBeyondSource /\ call.kinds # <<>>
    /\ call.kinds[Len(call.kinds)] \in {"overrun", "short"}
    => call.result = Err("BufferTooSmall")

(***************************************************************************)
(* A main sequence whose scan fails (udf_high_level.rs,                    *)
(* read_volume_structures)                                                 *)
(***************************************************************************)
\* C24: when the scan of the main sequence returns an error and the reserve
\* sequence is complete and valid, read_volume_structures scans the reserve
\* sequence and returns its structures.
C24_ReserveAfterError ==
    (/\ vds.pc = "done"
     /\ ScanOf(vds.image, MainLocation, vds.main).kind = "err"
     /\ ScanOf(vds.image, ReserveLocation, vds.reserve).kind = "ok"
     /\ ScanOf(vds.image, ReserveLocation, vds.reserve).v.some)
    => /\ vds.scans = <<"main", "reserve">>
       /\ vds.result = Ok(ScanOf(vds.image, ReserveLocation, vds.reserve).v.v)

(***************************************************************************)
(* The extent of a scan (udf_high_level.rs,                                *)
(* read_volume_descriptor_sequence)                                        *)
(***************************************************************************)
\* Descriptors of a sequence: "pd" and "pd_b" are Partition Descriptors of
\* partition 0 with different starting locations, "pd1" is one of partition
\* 1, "unknown" has a valid tag with tag_identifier 4
ScanKinds == {"pvd3", "lvd", "pd", "pd_b", "pd1", "term", "unknown", "zero"}

ScanHeads ==
    {<<>>, <<"pvd3", "lvd">>, <<"lvd", "pd1", "pvd3">>,
     <<"pvd3", "lvd", "pd_b", "unknown">>}

MaxScan == 3

ScanSector(kind, sector) ==
    CASE kind = "pd_b" -> VdsSector("pd", ReserveStamp, sector)
      [] kind = "pd1" ->
            Sealed(TagBody(TAG_PD, sector) @@ Put32(16, 2) @@ Put16(22, 1)
                   @@ Put32(188, 900) @@ Put32(192, 1000))
      [] kind = "unknown" -> Sealed(TagBody(4, sector))
      [] OTHER -> VdsSector(kind, MainStamp, sector)

ScanImage(kinds) ==
    [kind |-> "cursor", sector_size |-> LOGICAL_SECTOR_SIZE, data_offset |-> 0,
     nsectors |-> VdsSectors,
     sectors |-> [s \in MainLocation .. (MainLocation + Len(kinds) - 1) |->
                     ScanSector(kinds[s - MainLocation + 1], s)]]

\* Lengths in bytes: the whole sequence, one byte into its last sector, one
\* sector less and one sector more
ScanLengths(kinds) ==
    {l \in {Len(kinds) * LOGICAL_SECTOR_SIZE,
            (Len(kinds) - 1) * LOGICAL_SECTOR_SIZE + 1,
            (Len(kinds) - 1) * LOGICAL_SECTOR_SIZE,
            (Len(kinds) + 1) * LOGICAL_SECTOR_SIZE} : l >= 0}

InitScan ==
    \E head \in ScanHeads, tail \in SeqsUpTo(ScanKinds, MaxScan) :
       \E length \in ScanLengths(head \o tail) :
          vds = [pc |-> "scan", kinds |-> head \o tail, length |-> length,
                 image |-> ScanImage(head \o tail)]

ReadVolumeDescriptorSequence ==
    /\ vds.pc = "scan"
    /\ vds' = [vds EXCEPT !.pc = "done"]
                 @@ read_volume_descriptor_sequence(vds.image, MainLocation,
                                                    vds.length)
    /\ UNCHANGED <<cacheVars, addr, anc, laterVars>>

SpecScanInit ==
    /\ CacheIdle /\ addr = Idle /\ anc = Idle /\ InitScan /\ OthersIdle

SpecScan == SpecScanInit /\ [][ReadVolumeDescriptorSequence]_vars

\* The number of sectors a scan is to examine: up to and including the first
\* Terminating Descriptor, within ceil(length / sector_size) sectors
ScanCount(kinds, length) ==
    LET n == (length + LOGICAL_SECTOR_SIZE - 1) \div LOGICAL_SECTOR_SIZE
        terms == {i \in 1 .. Len(kinds) : i <= n /\ kinds[i] = "term"}
    IN  IF terms = {} THEN n
        ELSE CHOOSE i \in terms : \A j \in terms : i <= j

\* The descriptors that count: those before the point where the scan stops
ScanPrefix(kinds, length) ==
    SubSeq(kinds, 1,
           Min(Len(kinds),
               IF \E i \in 1 .. Min(Len(kinds), ScanCount(kinds, length)) :
                     kinds[i] = "term"
               THEN ScanCount(kinds, length) - 1
               ELSE ScanCount(kinds, length)))

\* The last Partition Descriptor of partition p among the descriptors
LastPd(kinds, p) ==
    LET of == {i \in 1 .. Len(kinds) :
                  kinds[i] \in (IF p = 0 THEN {"pd", "pd_b"} ELSE {"pd1"})}
    IN  CHOOSE i \in of : \A j \in of : j <= i

\* C25: the scan reads sectors start, start + 1, ... in increasing order, up
\* to and including the first one with tag_identifier 8, or
\* ceil(length / sector_size) sectors; what it returns is what the scan of
\* the descriptors before that point alone returns; an unrecognised
\* tag_identifier is no error; partition_descriptors holds, for each
\* partition_number met, the last Partition Descriptor with that number.
C25_ScanExtent ==
    vds.pc = "done" =>
       /\ vds.reads = [i \in 1 .. ScanCount(vds.kinds, vds.length) |->
                          MainLocation + i - 1]
       /\ vds.result.kind = "ok"
       /\ vds.result =
             read_volume_descriptor_sequence(
                 ScanImage(ScanPrefix(vds.kinds, vds.length)), MainLocation,
                 Len(ScanPrefix(vds.kinds, vds.length)) * LOGICAL_SECTOR_SIZE).result
       /\ vds.result.v.some =>
             /\ DOMAIN vds.result.v.v.partition_descriptors =
                   {p \in {0, 1} :
                       \E i \in 1 .. Len(ScanPrefix(vds.kinds, vds.length)) :
                          ScanPrefix(vds.kinds, vds.length)[i]
                             \in (IF p = 0 THEN {"pd", "pd_b"} ELSE {"pd1"})}
             /\ \A p \in DOMAIN vds.result.v.v.partition_descriptors :
                   vds.result.v.v.partition_descriptors[p] =
                      PartitionDescriptor_read(vds.image,
                          SectorWindow(vds.image,
                              MainLocation - 1
                                 + LastPd(ScanPrefix(vds.kinds, vds.length), p)))

\* Two Partition Descriptors of partition 0 and an unrecognised descriptor
\* before the Terminating Descriptor, a third Partition Descriptor after it:
\* the second one is in the result
C25_Witness ==
    /\ vds.pc = "done"
    /\ vds.kinds = <<"pvd3", "lvd", "pd_b", "unknown", "pd", "term", "pd_b">>
    /\ vds.length = 8 * LOGICAL_SECTOR_SIZE
    /\ Len(vds.reads) = 6
    /\ vds.result.kind = "ok" /\ vds.result.v.some
    /\ vds.result.v.v.partition_descriptors[0].partition_starting_location
          = PartitionStartOf(MainStamp)

(***************************************************************************)
(* The data of a directory (udf_parser.rs, read_directory_contents)        *)
(***************************************************************************)
\* The loop over the short_ads of one File Entry: each extent that is not
\* empty is read and parsed on its own, the descriptors found are appended
RECURSIVE extents_loop(_, _, _, _, _)
extents_loop(img, logical_volume_descriptor, partition_descriptor, ads, file_identifiers) ==
    IF ads = <<>> THEN Ok(file_identifiers)
    ELSE IF ~(extent_length_bytes(Head(ads)) > 0)
    THEN extents_loop(img, logical_volume_descriptor, partition_descriptor,
                      Tail(ads), file_identifiers)
    ELSE LET buf == read_extent(img, logical_volume_descriptor,
                                partition_descriptor, Head(ads))
         IN  IF buf.kind # "ok" THEN buf
             ELSE IF parse_file_identifiers(img, buf.v).kind # "ok"
             THEN parse_file_identifiers(img, buf.v)
             ELSE extents_loop(img, logical_volume_descriptor,
                      partition_descriptor, Tail(ads),
                      file_identifiers \o parse_file_identifiers(img, buf.v).v)

\* The loop over the File Entries
RECURSIVE entries_loop(_, _, _, _, _)
entries_loop(img, logical_volume_descriptor, partition_descriptor, file_entries, file_identifiers) ==
    IF file_entries = <<>> THEN Ok(file_identifiers)
    ELSE LET found == extents_loop(img, logical_volume_descriptor,
                          partition_descriptor,
                          read_short_allocation_descriptors(
                              Head(file_entries).allocation_descriptors),
                          file_identifiers)
         IN  IF found.kind # "ok" THEN found
             ELSE entries_loop(img, logical_volume_descriptor,
                      partition_descriptor, Tail(file_entries), found.v)

read_directory_contents(img, logical_volume_descriptor, partition_descriptor, file_entries) ==
    entries_loop(img, logical_volume_descriptor, partition_descriptor,
                 file_entries, <<>>)

\* A directory's data: descriptors and end markers, cut in two extents.  The
\* first extent lies at logical block 5 and the second at logical block 3;
\* an empty extent stands between them.  The two short_ads are in one File
\* Entry or in one File Entry each.
DirectoryKinds == FidKinds \cup {"terminal", "zero"}

DirectoryCuts(kinds) ==
    {c \in 1 .. (BufferLength(kinds) - 1) :
        \E k \in 0 .. (Len(kinds) - 1) :
           c \in {BufferLength(SubSeq(kinds, 1, k)),
                  BufferLength(SubSeq(kinds, 1, k)) + 20}}

Layouts == {"one", "two"}

PartOf(content, from, to) == [o \in 0 .. (to - from - 1) |-> ByteOf(content, from + o)]

DirectoryImage(kinds, cut) ==
    [kind |-> "cursor", sector_size |-> LOGICAL_SECTOR_SIZE, data_offset |-> 0,
     nsectors |-> VdsSectors,
     sectors |-> ((IcbPartitionStart + 5) :> PartOf(BufferContent(kinds), 0, cut))
                 @@ ((IcbPartitionStart + 3)
                        :> PartOf(BufferContent(kinds), cut, BufferLength(kinds)))]

DirectoryFileEntries(kinds, cut, layout) ==
    IF layout = "one"
    THEN <<[allocation_descriptors |->
               AdsBytes(<<ShortAd(0, cut, 5), ShortAd(0, 0, 7),
                          ShortAd(0, BufferLength(kinds) - cut, 3)>>)]>>
    ELSE <<[allocation_descriptors |-> AdsBytes(<<ShortAd(0, cut, 5)>>)],
           [allocation_descriptors |->
               AdsBytes(<<ShortAd(0, 0, 7),
                          ShortAd(0, BufferLength(kinds) - cut, 3)>>)]>>

InitExtents ==
    \E kinds \in SeqsUpTo(DirectoryKinds, MaxRecords) \ {<<>>},
       layout \in Layouts :
       \E cut \in DirectoryCuts(kinds) :
          call = [pc |-> "call", fn |-> "read_directory_contents",
                  kinds |-> kinds, cut |-> cut, layout |-> layout,
                  img |-> DirectoryImage(kinds, cut),
                  file_entries |-> DirectoryFileEntries(kinds, cut, layout)]

ReadDirectoryContents ==
    /\ call.pc = "call" /\ call.fn = "read_directory_contents"
    /\ call' = [call EXCEPT !.pc = "done"]
                  @@ [result |->
                         read_directory_contents(call.img,
                             [logical_block_size |-> LOGICAL_SECTOR_SIZE],
                             [partition_starting_location |-> IcbPartitionStart],
                             call.file_entries)]
    /\ UNCHANGED <<cacheVars, addr, anc, vds, walk, copy>>

SpecExtentsInit ==
    /\ CacheIdle /\ addr = Idle /\ anc = Idle /\ vds = Idle
    /\ InitExtents /\ walk = Idle /\ copy = Idle

SpecExtents == SpecExtentsInit /\ [][ReadDirectoryContents]_vars

\* parse_file_identifiers applied to the extents' bytes one after the other
OfConcatenation(kinds) ==
    parse_file_identifiers(OneSector(BufferContent(kinds)),
        [pos |-> 256 * LOGICAL_SECTOR_SIZE, len |-> BufferLength(kinds)])

\* C27: read_directory_contents returns what parse_file_identifiers returns
\* for the concatenation of all extents' bytes in order, also when a
\* descriptor straddles two extents and when an end marker lies in the
\* earlier extent.
C27_ExtentsConcatenated ==
    call.pc = "done" /\ call.fn = "read_directory_contents" =>
       call.result = OfConcatenation(call.kinds)

\* The part of C27 that the code has: extents that end where a descriptor
\* ends, the earlier one without an end marker
C27_WholeDescriptorExtents ==
    (/\ call.pc = "done" /\ call.fn = "read_directory_contents"
     /\ \E k \in 1 .. Len(call.kinds) :
           /\ call.cut = BufferLength(SubSeq(call.kinds, 1, k))
           /\ \A i \in 1 .. k : call.kinds[i] \in FidKinds)
    => call.result = OfConcatenation(call.kinds)

(***************************************************************************)
(* Descriptors whose tag is not valid                                      *)
(***************************************************************************)
\* A descriptor with its tag_checksum off by one
Damaged(content) == Put8(4, (content[4] + 1) % 256) @@ content

TrustKinds ==
    {"pvd3", "pvd_bad", "lvd", "lvd_bad", "lvd_nomaps_bad", "pd", "pd_bad"}

TrustSector(kind, sector) ==
    CASE kind = "lvd_bad" -> Damaged(VdsSector("lvd", MainStamp, sector))
      [] kind = "lvd_nomaps_bad" ->
            Damaged(VdsSector("lvd3_nomaps", MainStamp, sector))
      [] kind = "pd_bad" -> Damaged(VdsSector("pd", MainStamp, sector))
      [] OTHER -> VdsSector(kind, MainStamp, sector)

TrustImage(kinds) ==
    [kind |-> "cursor", sector_size |-> LOGICAL_SECTOR_SIZE, data_offset |-> 0,
     nsectors |-> VdsSectors,
     sectors |-> [s \in MainLocation .. (MainLocation + Len(kinds) - 1) |->
                     TrustSector(kinds[s - MainLocation + 1], s)]]

InitTrust ==
    \E kinds \in SeqsUpTo(TrustKinds, MaxScan) :
       vds = [pc |-> "scan", kinds |-> kinds,
              length |-> Len(kinds) * LOGICAL_SECTOR_SIZE,
              image |-> TrustImage(kinds)]

SpecTrustInit ==
    /\ CacheIdle /\ addr = Idle /\ anc = Idle /\ InitTrust /\ OthersIdle

SpecTrust == SpecTrustInit /\ [][ReadVolumeDescriptorSequence]_vars

\* validate_descriptor_tag of the tag against the sector its tag_location
\* names, where the descriptor was read from
ValidWhereRead(img, tag) ==
    validate_descriptor_tag(img, tag,
        SectorWindow(img, tag.tag_location[1] + 256 * tag.tag_location[2]))

\* C28: every Primary Volume Descriptor, Logical Volume Descriptor (also one
\* with map_table_length 0) and Partition Descriptor in the VolumeStructures
\* returned has a tag that passes validate_descriptor_tag.
C28_ValidateBeforeTrust ==
    (vds.pc = "done" /\ vds.result.kind = "ok" /\ vds.result.v.some) =>
       /\ ValidWhereRead(vds.image, vds.result.v.v.primary_volume.tag)
       /\ ValidWhereRead(vds.image, vds.result.v.v.logical_volume.tag)
       /\ \A p \in DOMAIN vds.result.v.v.partition_descriptors :
             ValidWhereRead(vds.image,
                            vds.result.v.v.partition_descriptors[p].tag)

\* The part of C28 the code has: the Primary Volume Descriptor, and the
\* Logical Volume Descriptor when its map table is not empty
C28_PvdAndMappedLvd ==
    (vds.pc = "done" /\ vds.result.kind = "ok" /\ vds.result.v.some) =>
       /\ ValidWhereRead(vds.image, vds.result.v.v.primary_volume.tag)
       /\ vds.result.v.v.logical_volume.map_table_length > 0 =>
             ValidWhereRead(vds.image, vds.result.v.v.logical_volume.tag)

(***************************************************************************)
(* The cached set across a failed read_block, checked under Spec.           *)
(***************************************************************************)
\* the bytes the cache holds for block b, which lru maps to a slot of d
BytesOf(d, lru, b) == d[LruIndex(lru, b)]

\* C29: a read_block that returns an I/O error leaves the set of cached
\* blocks unchanged: every block cached before the call is still cached
\* after it with the same bytes, also when the cache was full before the
\* call.
C29_FailedReadKeepsBlocks ==
    [][(ret'.op = "read_block" /\ ret'.res # "ok") =>
          \A b \in Cached(lru_cache) :
              /\ LruContains(lru_cache', b)
              /\ BytesOf(data', lru_cache', b) = BytesOf(data, lru_cache, b)
      ]_vars

\* What does hold: a failed read_block on a cache with a free slot keeps
\* every cached block and its bytes.
C29_KeptWithFreeSlot ==
    [][(ret'.op = "read_block" /\ ret'.res # "ok" /\ empty_blocks # <<>>) =>
          \A b \in Cached(lru_cache) :
              /\ LruContains(lru_cache', b)
              /\ BytesOf(data', lru_cache', b) = BytesOf(data, lru_cache, b)
      ]_vars

(***************************************************************************)
(* LogicalVolumeDescriptor::read_partition_maps, one turn of its while     *)
(* loop per step, checked under SpecTable.                                  *)
(***************************************************************************)
\* The bytes of one entry of a map table
TableEntry(kind) ==
    CASE kind = "other_len0" -> <<7, 0>>
      [] kind = "other_len1" -> <<7, 1>>
      [] kind = "other_len2" -> <<7, 2>>
      [] OTHER -> MapEntry(kind)

TableEntryKinds == MapEntryKinds \cup {"other_len0", "other_len1", "other_len2"}

RECURSIVE TableContent(_)
TableContent(table) ==
    IF table = <<>> THEN <<>>
    ELSE TableEntry(Head(table)) \o TableContent(Tail(table))

\* The vector of maps holds at most this many
MaxPushed == 4

\* Where the reader stands when the function is called: at the start of the
\* source, or six bytes before its end
TablePositions == {0, LOGICAL_SECTOR_SIZE - 6}

\* map_table_length is the table's length, or cuts it, or goes past it into
\* zero bytes
TableLengths(table) ==
    LET n == Len(TableContent(table))
    IN  {n, n + 2} \cup (IF n > 0 THEN {n - 1} ELSE {})

TableImage(table, pos) ==
    [kind |-> "cursor", sector_size |-> LOGICAL_SECTOR_SIZE, data_offset |-> 0,
     nsectors |-> 1, sectors |-> (0 :> BytesAt(pos, TableContent(table)))]

\* udf.rs:757-761: one turn of the while loop at offset, which is below
\* remaining_bytes
table_turn(img, partition_map_buf, offset) ==
    LET map == PartitionMap_read(img, [pos |-> partition_map_buf.pos + offset,
                                      len |-> partition_map_buf.len - offset])
    IN  IF map.kind # "ok" THEN [next |-> "return", result |-> Err(map.err)]
        ELSE [next |-> "push", offset |-> offset + get_length(map.v),
              map |-> map.v]

InitTable ==
    \E table \in SeqsUpTo(TableEntryKinds, MaxMaps), pos \in TablePositions :
       \E remaining_bytes \in TableLengths(table) :
          LET img == TableImage(table, pos)
              buf == [pos |-> pos, len |-> remaining_bytes]
          IN  call = [pc |-> "read", fn |-> "read_partition_maps",
                      table |-> table, image |-> img,
                      position |-> pos,
                      map_table_length |-> remaining_bytes,
                      turns |-> [o \in 0 .. (remaining_bytes - 1) |->
                                    table_turn(img, buf, o)],
                      offset |-> 0, maps |-> <<>>]

\* udf.rs:753-756: the buffer is allocated and filled from the reader
TableRead ==
    /\ call.pc = "read" /\ call.fn = "read_partition_maps"
    /\ IF call.position + call.map_table_length > SourceLen(call.image)
       THEN call' = [call EXCEPT !.pc = "done"] @@ [result |-> Err("Io")]
       ELSE call' = [call EXCEPT !.pc = "loop"]
    /\ UNCHANGED <<cacheVars, addr, anc, vds, walk, copy>>

\* A turn of the loop that pushes a map
TableTurn ==
    /\ call.pc = "loop" /\ call.fn = "read_partition_maps"
    /\ call.offset < call.map_table_length
    /\ call.turns[call.offset].next = "push"
    /\ Len(call.maps) < MaxPushed
    /\ call' = [call EXCEPT !.offset = call.turns[call.offset].offset,
                            !.maps = Append(@, call.turns[call.offset].map)]
    /\ UNCHANGED <<cacheVars, addr, anc, vds, walk, copy>>

\* The turn that leaves the function: the `?` of PartitionMap::read, or
\* Ok(maps) once offset has reached remaining_bytes
TableReturn ==
    /\ call.pc = "loop" /\ call.fn = "read_partition_maps"
    /\ IF call.offset >= call.map_table_length THEN TRUE
       ELSE call.turns[call.offset].next = "return"
    /\ call' = [call EXCEPT !.pc = "done"]
                  @@ [result |->
                         IF call.offset >= call.map_table_length
                         THEN Ok(call.maps)
                         ELSE call.turns[call.offset].result]
    /\ UNCHANGED <<cacheVars, addr, anc, vds, walk, copy>>

TableNext == TableRead \/ TableTurn \/ TableReturn

SpecTableInit ==
    /\ CacheIdle /\ addr = Idle /\ anc = Idle /\ vds = Idle
    /\ InitTable /\ walk = Idle /\ copy = Idle

\* One thread runs the function to its end
SpecTable == SpecTableInit /\ [][TableNext]_vars /\ WF_vars(TableNext)

\* C30: read_partition_maps terminates for every map-table content: a turn
\* of the loop that does not return an error advances the offset by at
\* least one byte, also at an entry of an unknown type that declares
\* partition_map_length 0, and the offset never exceeds map_table_length.
C30_EveryTurnAdvances ==
    [][(call.pc = "loop" /\ call'.pc = "loop") =>
          /\ call'.offset > call.offset
          /\ call'.offset <= call.map_table_length
      ]_vars

\* the loop stands at an entry that declares length 0
AtZeroLength ==
    IF call.pc = "loop" /\ call.offset < call.map_table_length
    THEN IF call.turns[call.offset].next = "push"
         THEN call.turns[call.offset].offset = call.offset
         ELSE FALSE
    ELSE FALSE

\* What does hold: the offset stays within map_table_length, and the call
\* returns unless it comes to an entry that declares length 0.
C30_WithinTable ==
    /\ [](call.pc \in {"loop", "done"} => call.offset <= call.map_table_length)
    /\ <>(call.pc = "done" \/ AtZeroLength)

====
